---- MODULE Spec2Model ----
(***************************************************************************)
(* Pose scoring and score feedback of poze-ai-coach.                       *)
(*                                                                         *)
(* Numbers.  JavaScript numbers are modelled as tagged values: a finite    *)
(* fixed-point integer, +Infinity, or NaN.  Normalised coordinates are     *)
(* fixed-point with Unit = 1.0; distances and similarities are fixed-point *)
(* with SimOne = 1.0; weights are kept in tenths.  Template coordinates    *)
(* are kept in hundredths of the frame, detector confidences in            *)
(* hundredths, detected positions in whole pixels.                         *)
(*                                                                         *)
(* Strings.  A part name is a TLA+ string; its characters, where the code  *)
(* looks at them (String.replace), are given by NameTokens as a sequence   *)
(* of tokens in which every underscore is a token of its own.  A feedback  *)
(* message is a sequence of tokens.                                        *)
(***************************************************************************)
EXTENDS Integers, Sequences, FiniteSets, TLC

VARIABLES
    selectedPose,   \* the PoseTemplate handed to the scoring call
    videoWidth,     \* video.videoWidth
    videoHeight,    \* video.videoHeight
    estimate,       \* what detector.estimatePoses returns: a sequence of poses
    edits,          \* number of keypoints of the estimate chosen freely so far
    pc,             \* position of the scoring call / of the feedback call
    poseScore,      \* state poseScore: Null or a PoseScoreResult
    scoreFeedback,  \* state scoreFeedback: sequence of messages
    mode,           \* the PoseMode the hook was called with
    feedback,       \* state feedback: sequence of PoseFeedback items
    variant,        \* which Camera component and hook run
    mounted,        \* the Camera component is mounted
    isCameraReady,  \* state isCameraReady of the Camera
    loading,        \* state loading of the hook
    detector,       \* state detector of the hook is not null
    isDetecting,    \* state isDetecting of the hook
    readyState,     \* video.readyState of the webcam
    effects,        \* instances of the detection effect whose timer is alive
    calls,          \* calls of estimatePoses in flight
    cameraTimers,   \* pending timeouts of toggleCamera
    disposed,       \* number of calls of detector.dispose so far
    settled         \* the call that settled last in the mounted hook, or Null

\* the state written by analyzePose
analysisVars == <<mode, feedback>>

\* the state of the Camera component and of the hook's detection loop
cameraVars == <<variant, mounted, isCameraReady, loading, detector,
                isDetecting, readyState, effects, calls, cameraTimers,
                disposed, settled>>

vars == <<selectedPose, videoWidth, videoHeight, estimate, edits, pc,
          poseScore, scoreFeedback, analysisVars, cameraVars>>

(***************************************************************************)
(* Bounds of the model                                                     *)
(***************************************************************************)
\* number of keypoints of one detector result that are chosen freely
MaxEdits == 1
\* longest missingKeypoints list handed directly to getPoseFeedback
MaxMissing == 4
\* number of detection-effect instances whose timer is alive at one time
MaxEffects == 2
\* number of estimatePoses calls in flight at one time
MaxInFlight == 2

(***************************************************************************)
(* JavaScript numbers                                                      *)
(***************************************************************************)
Fin(n) == [kind |-> "fin", v |-> n]
NaN == [kind |-> "nan", v |-> 0]
PosInf == [kind |-> "inf", v |-> 0]
Null == [kind |-> "null", v |-> 0]

IsFin(a) == a.kind = "fin"

\* a >= n, a < n for a JavaScript number a and an integer n (false on NaN)
NumGE(a, n) == a.kind = "inf" \/ (a.kind = "fin" /\ a.v >= n)
NumLT(a, n) == a.kind = "fin" /\ a.v < n
\* a > b for two JavaScript numbers (false when either is NaN)
NumGT(a, b) ==
    /\ a.kind # "nan" /\ b.kind # "nan"
    /\ \/ a.kind = "inf" /\ b.kind = "fin"
       \/ a.kind = "fin" /\ b.kind = "fin" /\ a.v > b.v

Abs(n) == IF n < 0 THEN -n ELSE n

\* fixed-point 1.0 of a normalised coordinate difference
Unit == 1000
\* fixed-point 1.0 of a distance and of a per-part similarity
SimOne == 10 * Unit

RECURSIVE SqrtSearch(_, _, _)
SqrtSearch(n, lo, hi) ==
    IF lo >= hi THEN lo
    ELSE LET mid == (lo + hi + 1) \div 2
         IN  IF mid * mid <= n THEN SqrtSearch(n, mid, hi)
                               ELSE SqrtSearch(n, lo, mid - 1)

\* floor of the square root of a natural number below 2^30
Isqrt(n) == SqrtSearch(n, 0, 32767)

(***************************************************************************)
(* Template catalog                                                        *)
(***************************************************************************)
Part(n, px, py) == [name |-> n, x |-> px, y |-> py]

olympiaPoses == <<
    [id |-> "front-double-biceps", keypoints |-> <<
        Part("left_shoulder", 35, 25), Part("right_shoulder", 65, 25),
        Part("left_elbow", 25, 35),    Part("right_elbow", 75, 35),
        Part("left_wrist", 30, 20),    Part("right_wrist", 70, 20),
        Part("left_hip", 40, 55),      Part("right_hip", 60, 55),
        Part("left_knee", 40, 80),     Part("right_knee", 60, 80) >>],
    [id |-> "side-chest", keypoints |-> <<
        Part("left_shoulder", 40, 25), Part("right_shoulder", 55, 25),
        Part("left_elbow", 30, 40),    Part("right_elbow", 45, 40),
        Part("left_wrist", 45, 35),    Part("right_wrist", 60, 35),
        Part("left_hip", 45, 55),      Part("right_hip", 55, 55),
        Part("left_knee", 40, 80),     Part("right_knee", 60, 80) >>],
    [id |-> "rear-lat-spread", keypoints |-> <<
        Part("left_shoulder", 30, 25), Part("right_shoulder", 70, 25),
        Part("left_elbow", 20, 40),    Part("right_elbow", 80, 40),
        Part("left_wrist", 25, 55),    Part("right_wrist", 75, 55),
        Part("left_hip", 40, 55),      Part("right_hip", 60, 55),
        Part("left_knee", 40, 80),     Part("right_knee", 60, 80) >>],
    [id |-> "front-lat-spread", keypoints |-> <<
        Part("left_shoulder", 30, 25), Part("right_shoulder", 70, 25),
        Part("left_elbow", 20, 40),    Part("right_elbow", 80, 40),
        Part("left_wrist", 25, 55),    Part("right_wrist", 75, 55),
        Part("left_hip", 40, 55),      Part("right_hip", 60, 55),
        Part("left_knee", 40, 80),     Part("right_knee", 60, 80) >>],
    [id |-> "most-muscular", keypoints |-> <<
        Part("left_shoulder", 40, 30), Part("right_shoulder", 60, 30),
        Part("left_elbow", 35, 45),    Part("right_elbow", 65, 45),
        Part("left_wrist", 45, 50),    Part("right_wrist", 55, 50),
        Part("left_hip", 40, 60),      Part("right_hip", 60, 60),
        Part("left_knee", 40, 85),     Part("right_knee", 60, 85) >> ] >>

CatalogTemplates == { olympiaPoses[i] : i \in 1..Len(olympiaPoses) }

\* PoseTemplate values outside the catalog: no parts; face, ankle and a part
\* the weight table does not list
OtherTemplates == {
    [id |-> "empty", keypoints |-> << >>],
    [id |-> "custom", keypoints |-> <<
        Part("nose", 50, 10), Part("left_eye", 45, 5),
        Part("right_ear", 60, 10), Part("left_ankle", 40, 95),
        Part("mid_spine", 50, 40) >>] }

Templates == CatalogTemplates \cup OtherTemplates

\* Object.keys(template.keypoints): the part names in declared order
ObjectKeys(template) ==
    [i \in 1..Len(template.keypoints) |-> template.keypoints[i].name]

Range(s) == { s[i] : i \in 1..Len(s) }

(***************************************************************************)
(* scorePose                                                               *)
(***************************************************************************)
\* the weight table, in tenths; 0 stands for "not listed"
\* keypointWeights with the upper-body weights at 0.1
keypointWeightsLightUpper(name) ==
    CASE name = "nose" -> 10
      [] name \in {"left_eye", "right_eye"} -> 8
      [] name \in {"left_ear", "right_ear"} -> 7
      [] name \in {"left_shoulder", "right_shoulder", "left_elbow",
                   "right_elbow", "left_wrist", "right_wrist"} -> 1
      [] name \in {"left_hip", "right_hip"} -> 8
      [] name \in {"left_knee", "right_knee"} -> 6
      [] name \in {"left_ankle", "right_ankle"} -> 4
      [] OTHER -> 0

keypointWeights(name) ==
    CASE name = "nose" -> 10
      [] name \in {"left_eye", "right_eye"} -> 8
      [] name \in {"left_ear", "right_ear"} -> 7
      [] name \in {"left_shoulder", "right_shoulder", "left_elbow",
                   "right_elbow", "left_wrist", "right_wrist"} -> 15
      [] name \in {"left_hip", "right_hip"} -> 8
      [] name \in {"left_knee", "right_knee"} -> 6
      [] name \in {"left_ankle", "right_ankle"} -> 4
      [] OTHER -> 0

\* keypointWeights[keypointName] || 1.0
WeightOf(name) ==
    IF keypointWeights(name) # 0 THEN keypointWeights(name) ELSE 10

\* Usable with the threshold itself let through (>= 0.3)
UsableAtThreshold(kp) == kp.name # "" /\ kp.score # 0 /\ kp.score >= 30

\* the filter of the keypointMap: keypoint.name && keypoint.score && score > 0.3
Usable(kp) == kp.name # "" /\ kp.score # 0 /\ kp.score > 30

\* keypointMap.has(name) / keypointMap.get(name): Map.set overwrites, so the
\* last usable keypoint of that name wins
MapHas(keypoints, name) ==
    \E i \in 1..Len(keypoints) : Usable(keypoints[i]) /\ keypoints[i].name = name

MapGet(keypoints, name) ==
    LET I == { i \in 1..Len(keypoints) :
                 Usable(keypoints[i]) /\ keypoints[i].name = name }
    IN  keypoints[CHOOSE i \in I : \A j \in I : j <= i]

\* NormDiff with the template coordinate left unscaled (template - detected)
NormDiffUnscaled(t, detected, dim) ==
    LET diff100 == t - 100 * detected
    IN  IF dim = 0
        THEN (IF diff100 = 0 THEN NaN ELSE PosInf)
        ELSE Fin((Abs(diff100) * Unit) \div (100 * dim))

\* (template * dim - detected) / dim, as a fixed-point magnitude; the sign is
\* dropped because the value is only ever squared.  t is in hundredths.
NormDiff(t, detected, dim) ==
    LET diff100 == t * dim - 100 * detected
    IN  IF dim = 0
        THEN (IF diff100 = 0 THEN NaN ELSE PosInf)
        ELSE Fin((Abs(diff100) * Unit) \div (100 * dim))

\* Math.sqrt(Math.pow(dx, 2) + Math.pow(dy, 2)), in units of 1/SimOne
Distance(dx, dy) ==
    IF dx.kind = "nan" \/ dy.kind = "nan" THEN NaN
    ELSE IF dx.kind = "inf" \/ dy.kind = "inf" THEN PosInf
    ELSE Fin(Isqrt((dx.v * dx.v + dy.v * dy.v) * 100))

\* KeypointScore as Math.abs(1 - distance * 5)
KeypointScoreAbs(distance) ==
    IF distance.kind = "nan" THEN NaN
    ELSE IF distance.kind = "inf" THEN PosInf
    ELSE Fin(Abs(SimOne - distance.v * 5))

\* KeypointScore as Math.max(0, 1 - distance * 4)
KeypointScoreSlope4(distance) ==
    IF distance.kind = "nan" THEN NaN
    ELSE IF distance.kind = "inf" THEN Fin(0)
    ELSE IF SimOne - distance.v * 4 > 0 THEN Fin(SimOne - distance.v * 4)
    ELSE Fin(0)

\* Math.max(0, 1 - distance * 5), in units of 1/SimOne
KeypointScore(distance) ==
    IF distance.kind = "nan" THEN NaN
    ELSE IF distance.kind = "inf" THEN Fin(0)
    ELSE IF SimOne - distance.v * 5 > 0 THEN Fin(SimOne - distance.v * 5)
    ELSE Fin(0)

\* similarity of a detected keypoint to a template part
PartSimilarity(part, kp, imageWidth, imageHeight) ==
    KeypointScore(Distance(NormDiff(part.x, kp.x, imageWidth),
                           NormDiff(part.y, kp.y, imageHeight)))

\* totalScore += keypointScore * weight
AddScore(totalScore, keypointScore, weight) ==
    IF totalScore.kind = "nan" \/ keypointScore.kind = "nan" THEN NaN
    ELSE Fin(totalScore.v + keypointScore.v * weight)

\* ScoreStep that also lists a matched part of similarity 0 as missing
ScoreStepPoorAsMissing(acc, part, keypoints, imageWidth, imageHeight) ==
    LET weight == WeightOf(part.name)
    IN  IF MapHas(keypoints, part.name)
        THEN LET sim == PartSimilarity(part, MapGet(keypoints, part.name),
                                       imageWidth, imageHeight)
             IN  [acc EXCEPT
                    !.totalWeight = @ + weight,
                    !.totalScore = AddScore(@, sim, weight),
                    !.matched = Append(@, part.name),
                    !.missing = IF sim = Fin(0) THEN Append(@, part.name) ELSE @]
        ELSE [acc EXCEPT
                !.totalWeight = @ + weight,
                !.missing = Append(@, part.name)]

\* ScoreStep that adds the weight of matched parts only to totalWeight
ScoreStepMatchedWeight(acc, part, keypoints, imageWidth, imageHeight) ==
    LET weight == WeightOf(part.name)
    IN  IF MapHas(keypoints, part.name)
        THEN [acc EXCEPT
                !.totalWeight = @ + weight,
                !.totalScore = AddScore(@,
                    PartSimilarity(part, MapGet(keypoints, part.name),
                                   imageWidth, imageHeight), weight),
                !.matched = Append(@, part.name)]
        ELSE [acc EXCEPT !.missing = Append(@, part.name)]

\* one step of templateKeypointNames.forEach
ScoreStep(acc, part, keypoints, imageWidth, imageHeight) ==
    LET weight == WeightOf(part.name)
    IN  IF MapHas(keypoints, part.name)
        THEN [acc EXCEPT
                !.totalWeight = @ + weight,
                !.totalScore = AddScore(@,
                    PartSimilarity(part, MapGet(keypoints, part.name),
                                   imageWidth, imageHeight), weight),
                !.matched = Append(@, part.name)]
        ELSE [acc EXCEPT
                !.totalWeight = @ + weight,
                !.missing = Append(@, part.name)]

RECURSIVE ScoreLoop(_, _, _, _, _, _)
ScoreLoop(acc, i, template, keypoints, imageWidth, imageHeight) ==
    IF i > Len(template.keypoints) THEN acc
    ELSE ScoreLoop(ScoreStep(acc, template.keypoints[i], keypoints,
                             imageWidth, imageHeight),
                   i + 1, template, keypoints, imageWidth, imageHeight)

\* Math.round((totalScore / totalWeight) * 100), 0 when totalWeight is 0;
\* totalScore is in units of weight tenths / SimOne, totalWeight in tenths
FinalScore(totalScore, totalWeight) ==
    IF totalWeight > 0
    THEN IF totalScore.kind = "nan" THEN NaN
         ELSE Fin((2 * 100 * totalScore.v + SimOne * totalWeight)
                    \div (2 * SimOne * totalWeight))
    ELSE Fin(0)

\* scorePose whose early return counts the keypoints of the pose as total
scorePoseEmptyTotal(pose, template, imageWidth, imageHeight) ==
    IF Len(pose.keypoints) = 0
    THEN [score |-> Fin(0),
          matchedKeypoints |-> 0,
          totalKeypoints |-> Len(pose.keypoints),
          missingKeypoints |-> ObjectKeys(template)]
    ELSE LET acc == ScoreLoop([totalScore |-> Fin(0), totalWeight |-> 0,
                               matched |-> << >>, missing |-> << >>],
                              1, template, pose.keypoints,
                              imageWidth, imageHeight)
         IN  [score |-> FinalScore(acc.totalScore, acc.totalWeight),
              matchedKeypoints |-> Len(acc.matched),
              totalKeypoints |-> Len(ObjectKeys(template)),
              missingKeypoints |-> acc.missing]

scorePose(pose, template, imageWidth, imageHeight) ==
    IF Len(pose.keypoints) = 0
    THEN [score |-> Fin(0),
          matchedKeypoints |-> 0,
          totalKeypoints |-> Len(ObjectKeys(template)),
          missingKeypoints |-> ObjectKeys(template)]
    ELSE LET acc == ScoreLoop([totalScore |-> Fin(0), totalWeight |-> 0,
                               matched |-> << >>, missing |-> << >>],
                              1, template, pose.keypoints,
                              imageWidth, imageHeight)
         IN  [score |-> FinalScore(acc.totalScore, acc.totalWeight),
              matchedKeypoints |-> Len(acc.matched),
              totalKeypoints |-> Len(ObjectKeys(template)),
              missingKeypoints |-> acc.missing]

(***************************************************************************)
(* getPoseFeedback                                                         *)
(***************************************************************************)
\* the characters of a part name, every underscore a token of its own
NameTokens(name) ==
    CASE name = "left_shoulder"  -> <<"left", "_", "shoulder">>
      [] name = "right_shoulder" -> <<"right", "_", "shoulder">>
      [] name = "left_elbow"     -> <<"left", "_", "elbow">>
      [] name = "right_elbow"    -> <<"right", "_", "elbow">>
      [] name = "left_wrist"     -> <<"left", "_", "wrist">>
      [] name = "right_wrist"    -> <<"right", "_", "wrist">>
      [] name = "left_hip"       -> <<"left", "_", "hip">>
      [] name = "right_hip"      -> <<"right", "_", "hip">>
      [] name = "left_knee"      -> <<"left", "_", "knee">>
      [] name = "right_knee"     -> <<"right", "_", "knee">>
      [] name = "left_eye"       -> <<"left", "_", "eye">>
      [] name = "right_eye"      -> <<"right", "_", "eye">>
      [] name = "left_ear"       -> <<"left", "_", "ear">>
      [] name = "right_ear"      -> <<"right", "_", "ear">>
      [] name = "left_ankle"     -> <<"left", "_", "ankle">>
      [] name = "mid_spine"      -> <<"mid", "_", "spine">>
      [] OTHER                   -> <<name>>

\* String.prototype.replace(from, to) with a string pattern: the first
\* occurrence only
RECURSIVE StringReplace(_, _, _)
StringReplace(tokens, from, to) ==
    IF tokens = << >> THEN << >>
    ELSE IF Head(tokens) = from THEN <<to>> \o Tail(tokens)
    ELSE <<Head(tokens)>> \o StringReplace(Tail(tokens), from, to)

\* Array.prototype.join(sep) on an array of token sequences
RECURSIVE ArrayJoin(_, _)
ArrayJoin(strings, sep) ==
    IF strings = << >> THEN << >>
    ELSE IF Len(strings) = 1 THEN strings[1]
    ELSE strings[1] \o <<sep>> \o ArrayJoin(Tail(strings), sep)

\* Array.prototype.filter(kp => list.includes(kp))
FilterIncluded(names, list) == SelectSeq(names, LAMBDA kp : kp \in list)

upperBodyKeypoints ==
    {"left_shoulder", "right_shoulder", "left_elbow", "right_elbow",
     "left_wrist", "right_wrist"}

lowerBodyKeypoints == {"left_hip", "right_hip", "left_knee", "right_knee"}

MsgMastered == <<"Perfect! You've mastered this pose.">>
MsgVeryClose == <<"Great job! Your pose is very close to perfect.">>
MsgGoodEffort == <<"Good effort! Keep adjusting to improve your score.">>
MsgRightTrack ==
    <<"You're on the right track. Try to align your body more closely with the template.">>
MsgKeepPracticing ==
    <<"Keep practicing! Try to match the pose template more closely.">>
MsgSeveralUpper ==
    <<"Several key upper body parts aren't visible. Try adjusting your position.">>
MsgLowerBody ==
    <<"For a complete pose, try to include your lower body in the frame if possible.">>
MsgNoPose ==
    <<"No pose detected. Please make sure you're visible in the camera frame.">>

\* `Make sure your ${readableKeypoints.join(', ')} are visible to the camera.`
MsgMakeSure(readableKeypoints) ==
    <<"Make sure your ">> \o ArrayJoin(readableKeypoints, ", ")
        \o <<" are visible to the camera.">>

\* the tip of the switch on template.id; << >> when no case matches
PoseTip(id) ==
    CASE id = "front-double-biceps" ->
           <<"Remember to keep your arms bent and biceps flexed. Face directly toward the camera.">>
      [] id = "side-chest" ->
           <<"Turn to the side more and bring your arm across your chest to emphasize your pectoral muscles.">>
      [] id = "rear-lat-spread" ->
           <<"Face away from the camera and spread your arms wider to showcase your back width.">>
      [] id = "front-lat-spread" ->
           <<"Spread your arms wider and push your lats out to create the illusion of a wider upper body.">>
      [] id = "most-muscular" ->
           <<"Bring your shoulders forward and flex all muscle groups simultaneously for maximum definition.">>
      [] OTHER -> << >>

\* OverallFeedback with the band of 80 exclusive (score > 80)
OverallFeedbackAbove80(score) ==
    IF NumGE(score, 95) THEN MsgMastered
    ELSE IF NumGE(score, 81) THEN MsgVeryClose
    ELSE IF NumGE(score, 60) THEN MsgGoodEffort
    ELSE IF NumGE(score, 40) THEN MsgRightTrack
    ELSE MsgKeepPracticing

\* the if / else-if chain on scoreResult.score
OverallFeedback(score) ==
    IF NumGE(score, 95) THEN MsgMastered
    ELSE IF NumGE(score, 80) THEN MsgVeryClose
    ELSE IF NumGE(score, 60) THEN MsgGoodEffort
    ELSE IF NumGE(score, 40) THEN MsgRightTrack
    ELSE MsgKeepPracticing

\* UpperBodyFeedback that names the parts only up to two of them (< 3)
UpperBodyFeedbackBelow3(missingKeypoints) ==
    LET missingUpperBodyKeypoints ==
            FilterIncluded(missingKeypoints, upperBodyKeypoints)
        readableKeypoints ==
            [i \in 1..Len(missingUpperBodyKeypoints) |->
                StringReplace(NameTokens(missingUpperBodyKeypoints[i]), "_", " ")]
    IN  IF Len(missingUpperBodyKeypoints) > 0
        THEN IF Len(readableKeypoints) < 3
             THEN <<MsgMakeSure(readableKeypoints)>>
             ELSE <<MsgSeveralUpper>>
        ELSE << >>

\* the messages pushed for missing upper-body parts
UpperBodyFeedback(missingKeypoints) ==
    LET missingUpperBodyKeypoints ==
            FilterIncluded(missingKeypoints, upperBodyKeypoints)
        readableKeypoints ==
            [i \in 1..Len(missingUpperBodyKeypoints) |->
                StringReplace(NameTokens(missingUpperBodyKeypoints[i]), "_", " ")]
    IN  IF Len(missingUpperBodyKeypoints) > 0
        THEN IF Len(readableKeypoints) <= 3
             THEN <<MsgMakeSure(readableKeypoints)>>
             ELSE <<MsgSeveralUpper>>
        ELSE << >>

\* LowerBodyFeedback without the test of the template id
LowerBodyFeedbackAnyTemplate(scoreResult, template) ==
    LET missingLowerBodyKeypoints ==
            FilterIncluded(scoreResult.missingKeypoints, lowerBodyKeypoints)
    IN  IF Len(missingLowerBodyKeypoints) > 0 /\ NumLT(scoreResult.score, 70)
        THEN <<MsgLowerBody>>
        ELSE << >>

\* the messages pushed by the lower-body hint
LowerBodyFeedback(scoreResult, template) ==
    IF template.id = "front-double-biceps" \/ template.id = "front-lat-spread"
    THEN LET missingLowerBodyKeypoints ==
                 FilterIncluded(scoreResult.missingKeypoints, lowerBodyKeypoints)
         IN  IF Len(missingLowerBodyKeypoints) > 0 /\ NumLT(scoreResult.score, 70)
             THEN <<MsgLowerBody>>
             ELSE << >>
    ELSE << >>

\* TipFeedback with the tip given up to a score of 70 inclusive
TipFeedbackUpTo70(scoreResult, template) ==
    IF PoseTip(template.id) # << >> /\ NumLT(scoreResult.score, 71)
    THEN <<PoseTip(template.id)>>
    ELSE << >>

\* the messages pushed by the switch on template.id
TipFeedback(scoreResult, template) ==
    IF PoseTip(template.id) # << >> /\ NumLT(scoreResult.score, 70)
    THEN <<PoseTip(template.id)>>
    ELSE << >>

\* getPoseFeedback with the tip pushed before the missing-part messages
getPoseFeedbackTipFirst(scoreResult, template) ==
    <<OverallFeedback(scoreResult.score)>>
    \o TipFeedback(scoreResult, template)
    \o (IF Len(scoreResult.missingKeypoints) > 0
        THEN UpperBodyFeedback(scoreResult.missingKeypoints)
                 \o LowerBodyFeedback(scoreResult, template)
        ELSE << >>)

\* the messages of getPoseFeedback, in the order they are pushed
getPoseFeedback(scoreResult, template) ==
    <<OverallFeedback(scoreResult.score)>>
    \o (IF Len(scoreResult.missingKeypoints) > 0
        THEN UpperBodyFeedback(scoreResult.missingKeypoints)
                 \o LowerBodyFeedback(scoreResult, template)
        ELSE << >>)
    \o TipFeedback(scoreResult, template)

(***************************************************************************)
(* The scoring call: detector result -> poseScore, scoreFeedback           *)
(***************************************************************************)
\* frame sizes <<videoWidth, videoHeight>> of the video element; a video
\* element without decoded dimensions reports 0
FrameSizes == { <<20, 20>>, <<40, 20>>, <<0, 20>> }

\* displacements, in pixels, of a detected keypoint from the template target
Offsets == { <<2, 2>>, <<0, 4>>, <<3, 3>>, <<-15, 0>> }

\* displacements, in pixels, of the whole detected pose: 0.2 of the smallest
\* frame height, and most of the frame width
PoseOffsets == { <<0, 4>>, <<-15, 0>> }

\* confidence, in hundredths, of a keypoint as first detected
HighConfidence == 90

\* the other detector confidences, in hundredths
Confidences == { 0, 30, 31 }

\* the keypoints whose detection is chosen freely: one or two parts of every
\* weight class of a catalog template, every part of the custom template, and
\* a keypoint without a name ("")
EditableNames ==
    { "left_shoulder", "right_elbow", "left_wrist", "right_hip", "left_knee",
      "nose", "left_eye", "right_ear", "left_ankle", "mid_spine", "" }

Keypoint(n, px, py, s) == [name |-> n, x |-> px, y |-> py, score |-> s]

\* the pixel a template coordinate (hundredths) falls on
TemplatePixel(t, dim) == (t * dim) \div 100

\* the pose whose keypoints sit exactly on the template
ExactPose(template, w, h) ==
    [keypoints |->
        [i \in 1..Len(template.keypoints) |->
            Keypoint(template.keypoints[i].name,
                     TemplatePixel(template.keypoints[i].x, w),
                     TemplatePixel(template.keypoints[i].y, h),
                     HighConfidence)]]

\* the pixel a keypoint of that name is displaced from: its template target,
\* or the frame centre for a name the template does not list
BasePixel(template, name, w, h) ==
    LET I == { i \in 1..Len(template.keypoints) :
                 template.keypoints[i].name = name }
    IN  IF I = {} THEN <<w \div 2, h \div 2>>
        ELSE LET i == CHOOSE j \in I : TRUE
             IN  <<TemplatePixel(template.keypoints[i].x, w),
                   TemplatePixel(template.keypoints[i].y, h)>>

\* the default result built when the detector returns no pose
DefaultScore(template) ==
    [score |-> Fin(0),
     matchedKeypoints |-> 0,
     totalKeypoints |-> Len(ObjectKeys(template)),
     missingKeypoints |-> ObjectKeys(template)]

\* what the PoseScore component renders: the zero-score card with its fixed
\* text when scoreResult.score === 0, else the score card with the matched
\* count and the list of feedback messages
PoseScore(scoreResult, fb) ==
    IF scoreResult.score = Fin(0)
    THEN [view |-> "zero", percent |-> Fin(0), matched |-> Null, total |-> Null,
          messages |-> <<MsgNoPose>>]
    ELSE [view |-> "score", percent |-> scoreResult.score,
          matched |-> Fin(scoreResult.matchedKeypoints),
          total |-> Fin(scoreResult.totalKeypoints),
          messages |-> fb]

\* the feedback panel of the Camera: selectedPose && poseScore ? <PoseScore/>
\* : the rule-based feedback, or a placeholder when there is none
FeedbackPanel ==
    IF selectedPose # Null /\ poseScore # Null
    THEN PoseScore(poseScore, scoreFeedback)
    ELSE [view |-> IF Len(feedback) > 0 THEN "feedback" ELSE "placeholder",
          percent |-> Null, matched |-> Null, total |-> Null,
          messages |-> feedback]

\* the Camera component is not part of the run
NoCamera ==
    /\ variant = "none"
    /\ mounted = FALSE
    /\ isCameraReady = FALSE
    /\ loading = FALSE
    /\ detector = FALSE
    /\ isDetecting = FALSE
    /\ readyState = 0
    /\ effects = << >>
    /\ calls = << >>
    /\ cameraTimers = 0
    /\ disposed = 0
    /\ settled = Null

Init ==
    /\ NoCamera
    /\ selectedPose \in Templates
    /\ \E f \in FrameSizes : videoWidth = f[1] /\ videoHeight = f[2]
    /\ estimate = << >>
    /\ edits = 0
    /\ pc = "estimating"
    /\ poseScore = Null
    /\ scoreFeedback = << >>
    /\ mode = "fitness"
    /\ feedback = << >>

\* the detector finds a pose that has no keypoints yet
PoseFound ==
    /\ pc = "estimating" /\ estimate = << >>
    /\ estimate' = << [keypoints |-> << >>] >>
    /\ UNCHANGED <<selectedPose, videoWidth, videoHeight, edits, pc,
                   poseScore, scoreFeedback>>
    /\ UNCHANGED <<analysisVars, cameraVars>>

\* the detector finds the pose exactly on the template
ExactPoseFound ==
    /\ pc = "estimating" /\ estimate = << >>
    /\ estimate' = << ExactPose(selectedPose, videoWidth, videoHeight) >>
    /\ UNCHANGED <<selectedPose, videoWidth, videoHeight, edits, pc,
                   poseScore, scoreFeedback>>
    /\ UNCHANGED <<analysisVars, cameraVars>>

\* the detected pose has one more keypoint, on its template target
AddKeypoint ==
    /\ pc = "estimating" /\ Len(estimate) > 0 /\ edits < MaxEdits
    /\ \E n \in (Range(ObjectKeys(selectedPose)) \cap EditableNames) \cup {"nose", ""} :
          LET base == BasePixel(selectedPose, n, videoWidth, videoHeight)
          IN  estimate' = [estimate EXCEPT ![1].keypoints =
                  Append(@, Keypoint(n, base[1], base[2], HighConfidence))]
    /\ edits' = edits + 1
    /\ UNCHANGED <<selectedPose, videoWidth, videoHeight, pc,
                   poseScore, scoreFeedback>>
    /\ UNCHANGED <<analysisVars, cameraVars>>

\* one keypoint of the detected pose lies elsewhere
MoveKeypoint ==
    /\ pc = "estimating" /\ Len(estimate) > 0 /\ edits < MaxEdits
    /\ \E i \in 1..Len(estimate[1].keypoints), off \in Offsets :
          /\ estimate[1].keypoints[i].name \in EditableNames
          /\ estimate' = [estimate EXCEPT
              ![1].keypoints[i].x = @ + off[1],
              ![1].keypoints[i].y = @ + off[2]]
    /\ edits' = edits + 1
    /\ UNCHANGED <<selectedPose, videoWidth, videoHeight, pc,
                   poseScore, scoreFeedback>>
    /\ UNCHANGED <<analysisVars, cameraVars>>

\* the whole detected pose lies elsewhere: the person stands off the template
MovePose ==
    /\ pc = "estimating" /\ Len(estimate) > 0 /\ edits < MaxEdits
    /\ estimate[1].keypoints # << >>
    /\ \E off \in PoseOffsets :
          estimate' = [estimate EXCEPT ![1].keypoints =
              [i \in 1..Len(@) |-> [@[i] EXCEPT !.x = @ + off[1],
                                                 !.y = @ + off[2]]]]
    /\ edits' = edits + 1
    /\ UNCHANGED <<selectedPose, videoWidth, videoHeight, pc,
                   poseScore, scoreFeedback>>
    /\ UNCHANGED <<analysisVars, cameraVars>>

\* one keypoint of the detected pose has another confidence
SetKeypointScore ==
    /\ pc = "estimating" /\ Len(estimate) > 0 /\ edits < MaxEdits
    /\ \E i \in 1..Len(estimate[1].keypoints), c \in Confidences :
          /\ estimate[1].keypoints[i].name \in EditableNames
          /\ c # estimate[1].keypoints[i].score
          /\ estimate' = [estimate EXCEPT ![1].keypoints[i].score = c]
    /\ edits' = edits + 1
    /\ UNCHANGED <<selectedPose, videoWidth, videoHeight, pc,
                   poseScore, scoreFeedback>>
    /\ UNCHANGED <<analysisVars, cameraVars>>

\* scorePoseAgainstTemplate from the return of estimatePoses on
scorePoseAgainstTemplate ==
    /\ pc = "estimating"
    /\ IF Len(estimate) > 0
       THEN LET scoreResult == scorePose(estimate[1], selectedPose,
                                         videoWidth, videoHeight)
            IN  /\ poseScore' = scoreResult
                /\ scoreFeedback' = getPoseFeedback(scoreResult, selectedPose)
       ELSE /\ poseScore' = DefaultScore(selectedPose)
            /\ scoreFeedback' = <<MsgNoPose>>
    /\ pc' = "scored"
    /\ UNCHANGED <<selectedPose, videoWidth, videoHeight, estimate, edits>>
    /\ UNCHANGED <<analysisVars, cameraVars>>

Next ==
    \/ PoseFound
    \/ ExactPoseFound
    \/ AddKeypoint
    \/ MoveKeypoint
    \/ MovePose
    \/ SetKeypointScore
    \/ scorePoseAgainstTemplate

Spec == Init /\ [][Next]_vars

(***************************************************************************)
(* getPoseFeedback on any score result                                     *)
(***************************************************************************)
\* a score result with the given score and nothing missing yet
ResultOf(template, s, missing) ==
    [score |-> Fin(s),
     matchedKeypoints |-> Len(ObjectKeys(template)) - Len(missing),
     totalKeypoints |-> Len(ObjectKeys(template)),
     missingKeypoints |-> missing]

\* position of a name in the template's declared order, 0 when not listed
KeyIndex(template, name) ==
    LET I == { i \in 1..Len(template.keypoints) :
                 template.keypoints[i].name = name }
    IN  IF I = {} THEN 0 ELSE CHOOSE i \in I : TRUE

InitFeedback ==
    /\ NoCamera
    /\ selectedPose \in CatalogTemplates
    /\ videoWidth = 20 /\ videoHeight = 20
    /\ estimate = << >>
    /\ edits = 0
    /\ pc = "input"
    /\ \E s \in 0..100 : poseScore = ResultOf(selectedPose, s, << >>)
    /\ scoreFeedback = << >>
    /\ mode = "fitness"
    /\ feedback = << >>

\* one more part, later in the declared order, is missing from the result
AppendMissing ==
    /\ pc = "input" /\ Len(poseScore.missingKeypoints) < MaxMissing
    /\ \E n \in Range(ObjectKeys(selectedPose)) :
          /\ \A j \in 1..Len(poseScore.missingKeypoints) :
                KeyIndex(selectedPose, poseScore.missingKeypoints[j])
                    < KeyIndex(selectedPose, n)
          /\ poseScore' = ResultOf(selectedPose, poseScore.score.v,
                                   Append(poseScore.missingKeypoints, n))
    /\ UNCHANGED <<selectedPose, videoWidth, videoHeight, estimate, edits,
                   pc, scoreFeedback>>
    /\ UNCHANGED <<analysisVars, cameraVars>>

\* the call getPoseFeedback(poseScore, selectedPose)
CallGetPoseFeedback ==
    /\ pc = "input"
    /\ scoreFeedback' = getPoseFeedback(poseScore, selectedPose)
    /\ pc' = "feedback"
    /\ UNCHANGED <<selectedPose, videoWidth, videoHeight, estimate, edits,
                   poseScore>>
    /\ UNCHANGED <<analysisVars, cameraVars>>

NextFeedback ==
    \/ AppendMissing
    \/ CallGetPoseFeedback

SpecFeedback == InitFeedback /\ [][NextFeedback]_vars

(***************************************************************************)
(* analyzePose: the rule-based feedback of the hook                        *)
(*                                                                         *)
(* Keypoint positions are the detector's: whole pixels of the video frame. *)
(* A comparison with a decimal constant is made after multiplying both     *)
(* sides, so that it is exact on whole pixels.                             *)
(***************************************************************************)
Modes == {"fitness", "photography"}

\* a PoseFeedback item: message is a sequence of tokens, part is "" when the
\* item has none
Item(message, severity, part) ==
    [message |-> message, severity |-> severity, part |-> part]

ItemLowConfidence ==
    Item(<<"Move closer to the camera or adjust lighting">>, "info", "")
ItemNoPose ==
    Item(<<"No pose detected. Please stand in front of the camera.">>, "info", "")
ItemShoulders == Item(<<"Try to level your shoulders">>, "info", "shoulders")
ItemHips == Item(<<"Try to level your hips">>, "info", "hips")
ItemKnees == Item(<<"Try to level your knees">>, "info", "knees")
ItemBack == Item(<<"Try to align your shoulders over your hips">>, "info", "back")
ItemHead == Item(<<"Try to level your head for a better pose">>, "info", "head")
ItemPosition == Item(<<"Try to center your face in the frame">>, "info", "position")
ItemPhotoShoulders ==
    Item(<<"Level your shoulders for a more balanced pose">>, "info", "shoulders")
ItemShowMore ==
    Item(<<"Some keypoints detected. Try to show more of your body for better feedback.">>,
         "info", "")

\* the filter kp.score && kp.score > 0.2
Confident(kp) == kp.score # 0 /\ kp.score > 20

\* pose.keypoints.filter(...)
ConfidentKeypoints(pose) == SelectSeq(pose.keypoints, Confident)

\* getKeypoint(name) is defined / its value: new Map(pairs) keeps the last
\* keypoint of a name
HasKeypoint(keypoints, name) ==
    \E i \in 1..Len(keypoints) : keypoints[i].name = name

getKeypoint(keypoints, name) ==
    LET I == { i \in 1..Len(keypoints) : keypoints[i].name = name }
    IN  keypoints[CHOOSE i \in I : \A j \in I : j <= i]

hasUpperBody(keypoints) ==
    HasKeypoint(keypoints, "left_shoulder") /\ HasKeypoint(keypoints, "right_shoulder")
hasLowerBody(keypoints) ==
    HasKeypoint(keypoints, "left_hip") /\ HasKeypoint(keypoints, "right_hip")
hasFace(keypoints) ==
    \/ HasKeypoint(keypoints, "nose")
    \/ HasKeypoint(keypoints, "left_eye") /\ HasKeypoint(keypoints, "right_eye")

\* Math.abs((right.y - left.y) / Math.max(0.1, right.x - left.x)) > 0.1
\* the denominator is kept in tenths
SlopeExceeds(left, right) ==
    LET dx10 == 10 * (right.x - left.x)
        den10 == IF dx10 > 1 THEN dx10 ELSE 1
    IN  100 * Abs(right.y - left.y) > den10

\* the slope check of the pair of keypoints, pushing item when it fires
SlopeCheck(keypoints, leftName, rightName, item) ==
    IF HasKeypoint(keypoints, leftName) /\ HasKeypoint(keypoints, rightName)
    THEN IF SlopeExceeds(getKeypoint(keypoints, leftName),
                         getKeypoint(keypoints, rightName))
         THEN <<item>> ELSE << >>
    ELSE << >>

\* Math.abs(shoulderCenter.x - hipCenter.x) > 0.1, the centres being the
\* halves of the sums
AlignmentExceeds(keypoints) ==
    LET shoulderSum == getKeypoint(keypoints, "left_shoulder").x
                        + getKeypoint(keypoints, "right_shoulder").x
        hipSum == getKeypoint(keypoints, "left_hip").x
                    + getKeypoint(keypoints, "right_hip").x
    IN  5 * Abs(shoulderSum - hipSum) > 1

\* Math.abs(nose.x - 0.5) > 0.2
CenterExceeds(nose) == Abs(10 * nose.x - 5) > 2

\* the items pushed by the branch mode === 'fitness'
FitnessChecks(keypoints) ==
    (IF hasUpperBody(keypoints)
     THEN SlopeCheck(keypoints, "left_shoulder", "right_shoulder", ItemShoulders)
     ELSE << >>)
    \o (IF hasLowerBody(keypoints)
        THEN SlopeCheck(keypoints, "left_hip", "right_hip", ItemHips)
                \o SlopeCheck(keypoints, "left_knee", "right_knee", ItemKnees)
        ELSE << >>)
    \o (IF hasUpperBody(keypoints) /\ hasLowerBody(keypoints)
        THEN IF AlignmentExceeds(keypoints) THEN <<ItemBack>> ELSE << >>
        ELSE << >>)

\* the items pushed by the branch mode === 'photography'
PhotographyChecks(keypoints) ==
    (IF hasFace(keypoints)
     THEN SlopeCheck(keypoints, "left_eye", "right_eye", ItemHead)
            \o (IF HasKeypoint(keypoints, "nose")
                THEN IF CenterExceeds(getKeypoint(keypoints, "nose"))
                     THEN <<ItemPosition>> ELSE << >>
                ELSE << >>)
     ELSE << >>)
    \o (IF hasUpperBody(keypoints)
        THEN SlopeCheck(keypoints, "left_shoulder", "right_shoulder",
                        ItemPhotoShoulders)
        ELSE << >>)

\* PositiveFeedback with the face looked at before the shoulders
PositiveFeedbackFaceFirst(keypoints, m) ==
    IF hasUpperBody(keypoints) /\ hasLowerBody(keypoints)
    THEN Item(IF m = "fitness" THEN <<"PERFECT! Your form is excellent!">>
              ELSE <<"PERFECT! Your pose looks amazing!">>, "success", "")
    ELSE IF hasFace(keypoints)
    THEN Item(<<"PERFECT! Head position is excellent!">>, "success", "")
    ELSE IF hasUpperBody(keypoints)
    THEN Item(IF m = "fitness" THEN <<"PERFECT! Upper body form is excellent!">>
              ELSE <<"PERFECT! Upper body pose looks amazing!">>, "success", "")
    ELSE ItemShowMore

\* the item pushed when no issue was found
PositiveFeedback(keypoints, m) ==
    IF hasUpperBody(keypoints) /\ hasLowerBody(keypoints)
    THEN Item(IF m = "fitness" THEN <<"PERFECT! Your form is excellent!">>
              ELSE <<"PERFECT! Your pose looks amazing!">>, "success", "")
    ELSE IF hasUpperBody(keypoints)
    THEN Item(IF m = "fitness" THEN <<"PERFECT! Upper body form is excellent!">>
              ELSE <<"PERFECT! Upper body pose looks amazing!">>, "success", "")
    ELSE IF hasFace(keypoints)
    THEN Item(<<"PERFECT! Head position is excellent!">>, "success", "")
    ELSE ItemShowMore

\* the feedback items after the checks: isPerfect is true exactly when no
\* check pushed an item
CheckedFeedback(keypoints, m) ==
    LET feedbackItems ==
            IF m = "fitness" THEN FitnessChecks(keypoints)
            ELSE IF m = "photography" THEN PhotographyChecks(keypoints)
            ELSE << >>
        isPerfect == Len(feedbackItems) = 0
    IN  IF Len(feedbackItems) = 0 \/ isPerfect
        THEN Append(feedbackItems, PositiveFeedback(keypoints, m))
        ELSE feedbackItems

\* analyzePose that runs the checks from two confident keypoints on
analyzePoseFromTwo(pose, m) ==
    LET keypoints == ConfidentKeypoints(pose)
    IN  IF Len(keypoints) < 2
        THEN <<ItemLowConfidence>>
        ELSE CheckedFeedback(keypoints, m)

\* the value analyzePose hands to setFeedback, for a pose with keypoints
analyzePose(pose, m) ==
    LET keypoints == ConfidentKeypoints(pose)
    IN  IF Len(keypoints) < 3
        THEN <<ItemLowConfidence>>
        ELSE CheckedFeedback(keypoints, m)

(***************************************************************************)
(* One detection call of the hook: detector result -> feedback             *)
(***************************************************************************)
\* frame sizes of the analysed video
AnalyzeFrames == { <<400, 400>>, <<800, 400>> }

\* the frame the standing pose is given in
BaseFrame == 400

\* a person standing upright in the middle of a BaseFrame x BaseFrame frame:
\* part name, x, y
StandingPose ==
    << <<"nose", 200, 60>>,
       <<"left_eye", 190, 50>>, <<"right_eye", 210, 50>>,
       <<"left_shoulder", 150, 100>>, <<"right_shoulder", 250, 100>>,
       <<"left_hip", 170, 220>>, <<"right_hip", 230, 220>>,
       <<"left_knee", 170, 320>>, <<"right_knee", 230, 320>> >>

\* the body lines a detection can show, and the parts of each
Lines == {"nose", "eyes", "shoulders", "hips", "knees"}

LineOf(name) ==
    CASE name = "nose" -> "nose"
      [] name \in {"left_eye", "right_eye"} -> "eyes"
      [] name \in {"left_shoulder", "right_shoulder"} -> "shoulders"
      [] name \in {"left_hip", "right_hip"} -> "hips"
      [] OTHER -> "knees"

\* displacements, in pixels, of a keypoint of the standing pose
AnalyzeOffsets == { <<0, 5>>, <<0, 40>>, <<60, 0>> }

\* confidences, in hundredths, around the filter of analyzePose
AnalyzeConfidences == { 20, 21 }

\* the standing pose with the given lines visible, in a w x h frame; when
\* flipped, the person's left is on the right of the image
StandingPoseIn(visible, flipped, w, h) ==
    LET shown == SelectSeq(StandingPose, LAMBDA p : LineOf(p[1]) \in visible)
    IN  [keypoints |->
            [i \in 1..Len(shown) |->
                Keypoint(shown[i][1],
                         ((IF flipped THEN BaseFrame - shown[i][2]
                           ELSE shown[i][2]) * w) \div BaseFrame,
                         (shown[i][3] * h) \div BaseFrame,
                         HighConfidence)]]

InitAnalyze ==
    /\ NoCamera
    /\ selectedPose = Null
    /\ \E f \in AnalyzeFrames : videoWidth = f[1] /\ videoHeight = f[2]
    /\ estimate = << >>
    /\ edits = 0
    /\ pc = "detecting"
    /\ poseScore = Null
    /\ scoreFeedback = << >>
    /\ mode \in Modes
    /\ feedback = << >>

\* the detector finds a standing person, some body lines visible
StandingPoseFound ==
    /\ pc = "detecting" /\ estimate = << >>
    /\ \E visible \in SUBSET Lines, flipped \in BOOLEAN :
          estimate' = << StandingPoseIn(visible, flipped, videoWidth, videoHeight) >>
    /\ UNCHANGED <<selectedPose, videoWidth, videoHeight, edits, pc,
                   poseScore, scoreFeedback, analysisVars, cameraVars>>

\* one keypoint of the detected person lies elsewhere
ShiftKeypoint ==
    /\ pc = "detecting" /\ Len(estimate) > 0 /\ edits < MaxEdits
    /\ \E i \in 1..Len(estimate[1].keypoints), off \in AnalyzeOffsets :
          estimate' = [estimate EXCEPT
              ![1].keypoints[i].x = @ + off[1],
              ![1].keypoints[i].y = @ + off[2]]
    /\ edits' = edits + 1
    /\ UNCHANGED <<selectedPose, videoWidth, videoHeight, pc,
                   poseScore, scoreFeedback, analysisVars, cameraVars>>

\* one keypoint of the detected person has a confidence near the filter
DimKeypoint ==
    /\ pc = "detecting" /\ Len(estimate) > 0 /\ edits < MaxEdits
    /\ \E i \in 1..Len(estimate[1].keypoints), c \in AnalyzeConfidences :
          estimate' = [estimate EXCEPT ![1].keypoints[i].score = c]
    /\ edits' = edits + 1
    /\ UNCHANGED <<selectedPose, videoWidth, videoHeight, pc,
                   poseScore, scoreFeedback, analysisVars, cameraVars>>

\* detectPose from the return of estimatePoses on
detectPose ==
    /\ pc = "detecting"
    /\ feedback' = IF Len(estimate) > 0
                   THEN analyzePose(estimate[1], mode)
                   ELSE <<ItemNoPose>>
    /\ pc' = "analyzed"
    /\ UNCHANGED <<selectedPose, videoWidth, videoHeight, estimate, edits,
                   poseScore, scoreFeedback, mode, cameraVars>>

NextAnalyze ==
    \/ StandingPoseFound
    \/ ShiftKeypoint
    \/ DimKeypoint
    \/ detectPose

SpecAnalyze == InitAnalyze /\ [][NextAnalyze]_vars

(***************************************************************************)
(* analyzePoseForFeedback: the photography feedback of the scoring hook    *)
(***************************************************************************)
essentialKeypoints ==
    << "nose", "left_eye", "right_eye", "left_ear", "right_ear",
       "left_shoulder", "right_shoulder", "left_elbow", "right_elbow" >>

\* the items returned for a pose; keypointMap is the map of scorePose
analyzePoseForFeedback(pose) ==
    IF Len(pose.keypoints) = 0 THEN << >>
    ELSE
    LET keypoints == pose.keypoints
        missingEssentialKeypoints ==
            SelectSeq(essentialKeypoints, LAMBDA kp : ~MapHas(keypoints, kp))
        readableKeypoints ==
            [i \in 1..Len(missingEssentialKeypoints) |->
                StringReplace(NameTokens(missingEssentialKeypoints[i]), "_", " ")]
        shoulders == MapHas(keypoints, "left_shoulder")
                        /\ MapHas(keypoints, "right_shoulder")
        leftShoulder == MapGet(keypoints, "left_shoulder")
        rightShoulder == MapGet(keypoints, "right_shoulder")
        shoulderDiff == Abs(leftShoulder.y - rightShoulder.y)
        nose == MapGet(keypoints, "nose")
        \* twice Math.abs(nose.x - shoulderMidX)
        horizontalDiff2 == Abs(2 * nose.x - (leftShoulder.x + rightShoulder.x))
    IN  (IF Len(missingEssentialKeypoints) > 0
         THEN << Item(<<"Some key upper body parts aren't visible: ">>
                          \o ArrayJoin(readableKeypoints, ", "),
                      "warning", missingEssentialKeypoints[1]) >>
         ELSE << >>)
        \o (IF shoulders
            THEN IF shoulderDiff > 30
                 THEN << Item(<<"Try to keep your shoulders level">>,
                              "warning", "left_shoulder") >>
                 ELSE IF shoulderDiff < 10
                 THEN << Item(<<"Great shoulder alignment!">>,
                              "success", "left_shoulder") >>
                 ELSE << >>
            ELSE << >>)
        \o (IF MapHas(keypoints, "nose") /\ shoulders
            THEN IF horizontalDiff2 > 60
                 THEN << Item(<<"Try to align your head with your shoulders for better posture">>,
                              "info", "nose") >>
                 ELSE << >>
            ELSE << >>)

(***************************************************************************)
(* The Camera component and the detection loop of the hook                 *)
(*                                                                         *)
(* variant "template": the Camera with the pose selector and the hook that *)
(* has scorePoseAgainstTemplate.  variant "rules": the Camera without the  *)
(* selector and the hook whose detectPose calls analyzePose.               *)
(* A state change, the re-render it causes and the effects the re-render   *)
(* re-runs are one step.                                                   *)
(***************************************************************************)
Variants == {"template", "rules"}

\* the poses the pose selector offers in the model
SelectablePoses ==
    { t \in CatalogTemplates : t.id \in {"front-double-biceps", "side-chest"} }

\* the frame of the webcam video
CameraFrame == 400

\* the person the detector sees, and what estimatePoses can do
CameraPose == StandingPoseIn(Lines, FALSE, CameraFrame, CameraFrame)

\* a second person in the frame, seen from behind and down to the shoulders
BystanderPose ==
    StandingPoseIn({"nose", "eyes", "shoulders"}, TRUE, CameraFrame, CameraFrame)

Outcomes == {"poses", "morePoses", "none", "throws"}

\* the array estimatePoses resolves to
Returned(outcome) ==
    CASE outcome = "poses" -> <<CameraPose>>
      [] outcome = "morePoses" -> <<CameraPose, BystanderPose>>
      [] OTHER -> << >>

LastPose(poses) == poses[Len(poses)]

\* poses[0]
FirstPose(poses) == poses[1]

\* useState<PoseDetector | null>(null): the detector the effect that creates
\* the detector closed over; the effect has no dependencies and runs once
MountDetector == FALSE

\* `Error detecting pose: ${error.message}` / `Error initializing ...`
ItemDetectError == Item(<<"Error detecting pose: ", "error.message">>, "error", "")
ItemInitError ==
    Item(<<"Error initializing pose detector: ", "error.message">>, "error", "")

\* an instance of the detection effect: its timer (the warm-up timeout or the
\* interval the timeout started), whether its cleanup has run, and the state
\* its callbacks closed over
EffectInstance(det, sel) ==
    [timer |-> "timeout", torn |-> FALSE, isDetecting |-> det, template |-> sel]

\* the cleanup of the effect: clearTimeout(startDetection).  An interval that
\* the timeout has started stays alive.
CleanedUp(effs) ==
    SelectSeq([i \in 1..Len(effs) |-> [effs[i] EXCEPT !.torn = TRUE]],
              LAMBDA e : e.timer = "interval")

\* the effect re-run of a render: cleanup of the last instance, then the
\* effect body
EffectRun(effs, ready, load, det, sel) ==
    IF ready /\ ~load
    THEN Append(CleanedUp(effs),
                EffectInstance(IF variant = "rules" THEN det ELSE FALSE,
                               IF variant = "template" THEN sel ELSE Null))
    ELSE CleanedUp(effs)

\* the effects after a render: the memoized callbacks of the template variant
\* re-run the effect only when a dependency changed, the callbacks of the
\* rules variant are new on every render
Rendered(depsChanged, ready, load, det, sel) ==
    IF variant = "rules" \/ depsChanged
    THEN EffectRun(effects, ready, load, det, sel)
    ELSE effects

InitCamera ==
    /\ variant \in Variants
    /\ mode \in Modes
    /\ mounted = TRUE
    /\ isCameraReady = FALSE
    /\ loading = TRUE
    /\ detector = FALSE
    /\ isDetecting = FALSE
    /\ readyState = 0
    /\ effects = << >>
    /\ calls = << >>
    /\ cameraTimers = 0
    /\ disposed = 0
    /\ settled = Null
    /\ selectedPose = Null
    /\ videoWidth = CameraFrame /\ videoHeight = CameraFrame
    /\ estimate = << >>
    /\ edits = 0
    /\ pc = "camera"
    /\ poseScore = Null
    /\ scoreFeedback = << >>
    /\ feedback = << >>

\* initializeDetector succeeds: setDetector, setLoading(false)
DetectorCreated ==
    /\ mounted /\ loading
    /\ detector' = TRUE
    /\ loading' = FALSE
    /\ effects' = Rendered(TRUE, isCameraReady, FALSE, isDetecting, selectedPose)
    /\ Len(effects') <= MaxEffects
    /\ UNCHANGED <<selectedPose, videoWidth, videoHeight, estimate, edits, pc,
                   poseScore, scoreFeedback, analysisVars, variant, mounted,
                   isCameraReady, isDetecting, readyState, calls, cameraTimers>>
    /\ UNCHANGED <<disposed, settled>>

\* initializeDetector fails: setLoading(false), and in the rules variant the
\* error item
DetectorFailed ==
    /\ mounted /\ loading
    /\ loading' = FALSE
    /\ feedback' = IF variant = "rules" THEN <<ItemInitError>> ELSE feedback
    /\ effects' = Rendered(TRUE, isCameraReady, FALSE, isDetecting, selectedPose)
    /\ Len(effects') <= MaxEffects
    /\ UNCHANGED <<selectedPose, videoWidth, videoHeight, estimate, edits, pc,
                   poseScore, scoreFeedback, mode, variant, mounted,
                   isCameraReady, detector, isDetecting, readyState, calls,
                   cameraTimers>>
    /\ UNCHANGED <<disposed, settled>>

\* onUserMedia: handleVideoReady
handleVideoReady ==
    /\ mounted /\ ~isCameraReady
    /\ isCameraReady' = TRUE
    /\ effects' = Rendered(TRUE, TRUE, loading, isDetecting, selectedPose)
    /\ Len(effects') <= MaxEffects
    /\ UNCHANGED <<selectedPose, videoWidth, videoHeight, estimate, edits, pc,
                   poseScore, scoreFeedback, analysisVars, variant, mounted,
                   loading, detector, isDetecting, readyState, calls,
                   cameraTimers>>
    /\ UNCHANGED <<disposed, settled>>

\* the video element has, or has no longer, data to play
VideoReadyState ==
    /\ mounted
    /\ readyState' = IF readyState = 4 THEN 0 ELSE 4
    /\ UNCHANGED <<selectedPose, videoWidth, videoHeight, estimate, edits, pc,
                   poseScore, scoreFeedback, analysisVars, variant, mounted,
                   isCameraReady, loading, detector, isDetecting, effects,
                   calls, cameraTimers>>
    /\ UNCHANGED <<disposed, settled>>

\* toggleCamera: setIsCameraReady(false) and the 300 ms timeout
toggleCamera ==
    /\ mounted /\ cameraTimers = 0
    /\ isCameraReady' = FALSE
    /\ cameraTimers' = cameraTimers + 1
    /\ effects' = Rendered(isCameraReady, FALSE, loading, isDetecting, selectedPose)
    /\ UNCHANGED <<selectedPose, videoWidth, videoHeight, estimate, edits, pc,
                   poseScore, scoreFeedback, analysisVars, variant, mounted,
                   loading, detector, isDetecting, readyState, calls>>
    /\ UNCHANGED <<disposed, settled>>

\* the timeout of toggleCamera: setIsCameraReady(true)
CameraTimerFires ==
    /\ cameraTimers > 0
    /\ cameraTimers' = cameraTimers - 1
    /\ IF mounted
       THEN /\ isCameraReady' = TRUE
            /\ effects' = IF isCameraReady THEN effects
                          ELSE Rendered(TRUE, TRUE, loading, isDetecting,
                                        selectedPose)
       ELSE UNCHANGED <<isCameraReady, effects>>
    /\ Len(effects') <= MaxEffects
    /\ UNCHANGED <<selectedPose, videoWidth, videoHeight, estimate, edits, pc,
                   poseScore, scoreFeedback, analysisVars, variant, mounted,
                   loading, detector, isDetecting, readyState, calls>>
    /\ UNCHANGED <<disposed, settled>>

\* handleSelectPose(pose) of the pose selector, which fitness mode shows
handleSelectPose ==
    /\ mounted /\ variant = "template" /\ mode = "fitness"
    /\ \E pose \in SelectablePoses :
          /\ selectedPose' = IF selectedPose # Null /\ selectedPose.id = pose.id
                             THEN Null ELSE pose
          /\ effects' = Rendered(TRUE, isCameraReady, loading, isDetecting,
                                 selectedPose')
    /\ Len(effects') <= MaxEffects
    /\ UNCHANGED <<videoWidth, videoHeight, estimate, edits, pc,
                   poseScore, scoreFeedback, analysisVars, variant, mounted,
                   isCameraReady, loading, detector, isDetecting, readyState,
                   calls, cameraTimers>>
    /\ UNCHANGED <<disposed, settled>>

\* the warm-up timeout of an effect instance fires: setInterval
TimeoutFires ==
    /\ \E i \in 1..Len(effects) :
          /\ effects[i].timer = "timeout"
          /\ effects' = [effects EXCEPT ![i].timer = "interval"]
    /\ UNCHANGED <<selectedPose, videoWidth, videoHeight, estimate, edits, pc,
                   poseScore, scoreFeedback, analysisVars, variant, mounted,
                   isCameraReady, loading, detector, isDetecting, readyState,
                   calls, cameraTimers>>
    /\ UNCHANGED <<disposed, settled>>

\* the call an interval callback of the instance makes, "" when it makes none:
\* the video test of the callback, then the guards of the function called
TickCall(e) ==
    IF ~(mounted /\ readyState = 4) THEN ""
    ELSE IF variant = "template"
    THEN IF ~detector THEN ""
         ELSE IF e.template # Null /\ mode = "fitness" THEN "score" ELSE "detect"
    ELSE IF ~detector \/ e.isDetecting THEN "" ELSE "detect"

\* the interval of an effect instance ticks
IntervalTick ==
    /\ \E i \in 1..Len(effects) :
          /\ effects[i].timer = "interval"
          /\ IF TickCall(effects[i]) = ""
             THEN UNCHANGED <<calls, isDetecting, effects>>
             ELSE /\ Len(calls) < MaxInFlight
                  /\ calls' = Append(calls, [kind |-> TickCall(effects[i]),
                                             template |-> effects[i].template,
                                             torn |-> effects[i].torn,
                                             ready |-> isCameraReady,
                                             loading |-> loading,
                                             selected |-> selectedPose])
                  /\ isDetecting' = TRUE
                  /\ effects' = IF variant = "rules" /\ ~isDetecting
                                THEN EffectRun(effects, isCameraReady, loading,
                                               TRUE, selectedPose)
                                ELSE effects
                  /\ Len(effects') <= MaxEffects
    /\ UNCHANGED <<selectedPose, videoWidth, videoHeight, estimate, edits, pc,
                   poseScore, scoreFeedback, analysisVars, variant, mounted,
                   isCameraReady, loading, detector, readyState, cameraTimers>>
    /\ UNCHANGED <<disposed, settled>>

\* what scorePoseAgainstTemplate stores for a result that holds a pose, and
\* the feedback detectPose stores for it, for every result the detector may
\* return on the camera frame
ScoreStored ==
    [outcome \in {"poses", "morePoses"}, id \in {t.id : t \in SelectablePoses} |->
        LET template == CHOOSE t \in SelectablePoses : t.id = id
            scoreResult == scorePose(FirstPose(Returned(outcome)), template,
                                     CameraFrame, CameraFrame)
        IN  [poseScore |-> scoreResult,
             scoreFeedback |-> getPoseFeedback(scoreResult, template)]]

FeedbackStored ==
    [outcome \in {"poses", "morePoses"}, m \in Modes |->
        [template |-> analyzePoseForFeedback(FirstPose(Returned(outcome))),
         rules |-> analyzePose(FirstPose(Returned(outcome)), m)]]

\* estimatePoses of a scorePoseAgainstTemplate call settles
ScoreCallSettles ==
    /\ \E j \in 1..Len(calls), outcome \in Outcomes :
          LET poses == Returned(outcome)
              template == calls[j].template
          IN
          /\ calls[j].kind = "score"
          /\ calls' = SubSeq(calls, 1, j - 1) \o SubSeq(calls, j + 1, Len(calls))
          /\ IF ~mounted
             THEN UNCHANGED <<estimate, poseScore, scoreFeedback, isDetecting,
                              settled>>
             ELSE /\ isDetecting' = FALSE
                  /\ settled' = [kind |-> "score", template |-> template,
                                 outcome |-> outcome]
                  /\ CASE outcome = "throws" ->
                            UNCHANGED <<estimate, poseScore, scoreFeedback>>
                       [] Len(poses) > 0 ->
                            /\ estimate' = poses
                            /\ poseScore' = ScoreStored[outcome, template.id].poseScore
                            /\ scoreFeedback' =
                                  ScoreStored[outcome, template.id].scoreFeedback
                       [] OTHER ->
                            /\ estimate' = << >>
                            /\ poseScore' = DefaultScore(template)
                            /\ scoreFeedback' = <<MsgNoPose>>
    /\ UNCHANGED <<selectedPose, videoWidth, videoHeight, edits, pc,
                   analysisVars, variant, mounted, isCameraReady, loading,
                   detector, readyState, effects, cameraTimers, disposed>>

\* estimatePoses of a detectPose call settles
DetectCallSettles ==
    /\ \E j \in 1..Len(calls), outcome \in Outcomes :
          LET poses == Returned(outcome)
          IN
          /\ calls[j].kind = "detect"
          /\ calls' = SubSeq(calls, 1, j - 1) \o SubSeq(calls, j + 1, Len(calls))
          /\ IF ~mounted
             THEN UNCHANGED <<estimate, feedback, isDetecting, effects, settled>>
             ELSE /\ isDetecting' = FALSE
                  /\ settled' = [kind |-> "detect", template |-> Null,
                                 outcome |-> outcome]
                  /\ estimate' = CASE outcome = "throws" -> estimate
                                   [] Len(poses) > 0 -> poses
                                   [] OTHER -> IF variant = "template" THEN << >>
                                               ELSE estimate
                  /\ feedback' =
                        IF variant = "template"
                        THEN IF outcome # "throws" /\ Len(poses) > 0
                                /\ mode = "photography"
                             THEN FeedbackStored[outcome, mode].template
                             ELSE feedback
                        ELSE CASE outcome = "throws" -> <<ItemDetectError>>
                               [] Len(poses) > 0 -> FeedbackStored[outcome, mode].rules
                               [] OTHER -> <<ItemNoPose>>
                  /\ effects' = Rendered(FALSE, isCameraReady, loading, FALSE,
                                         selectedPose)
                  /\ Len(effects') <= MaxEffects
    /\ UNCHANGED <<selectedPose, videoWidth, videoHeight, edits, pc,
                   poseScore, scoreFeedback, mode, variant, mounted,
                   isCameraReady, loading, detector, readyState, cameraTimers,
                   disposed>>

\* the Camera is unmounted: the cleanup of the detection effect runs, the
\* webcam ref is cleared, and the cleanup of the effect that created the
\* detector runs: if (detector) detector.dispose()
Unmount ==
    /\ mounted
    /\ mounted' = FALSE
    /\ effects' = CleanedUp(effects)
    /\ disposed' = IF MountDetector THEN disposed + 1 ELSE disposed
    /\ UNCHANGED <<selectedPose, videoWidth, videoHeight, estimate, edits, pc,
                   poseScore, scoreFeedback, analysisVars, variant,
                   isCameraReady, loading, detector, isDetecting, readyState,
                   calls, cameraTimers, settled>>

NextCamera ==
    \/ DetectorCreated
    \/ DetectorFailed
    \/ handleVideoReady
    \/ VideoReadyState
    \/ toggleCamera
    \/ CameraTimerFires
    \/ handleSelectPose
    \/ TimeoutFires
    \/ IntervalTick
    \/ ScoreCallSettles
    \/ DetectCallSettles
    \/ Unmount

SpecCamera == InitCamera /\ [][NextCamera]_vars

(***************************************************************************)
(* Properties of scorePose and scorePoseAgainstTemplate (under Spec)       *)
(***************************************************************************)
Scored == pc = "scored"

\* the keypoints of the first detected pose
DetectedKeypoints == estimate[1].keypoints

\* a keypoint of that name with a name and a confidence above 0.3 was detected
Detected(keypoints, name) ==
    \E k \in 1..Len(keypoints) :
        /\ keypoints[k].name = name
        /\ keypoints[k].name # ""
        /\ keypoints[k].score > 30

\* C1: in every result of template scoring, matchedKeypoints +
\* |missingKeypoints| = totalKeypoints = number of template parts, and
\* missingKeypoints lists template part names only, each once, in the
\* template's declared order, none of them a part that was matched.
Thm_C1 ==
    Scored =>
        LET r == poseScore
            n == Len(r.missingKeypoints)
        IN  /\ r.matchedKeypoints + n = r.totalKeypoints
            /\ r.totalKeypoints = Len(selectedPose.keypoints)
            /\ \A i \in 1..n : KeyIndex(selectedPose, r.missingKeypoints[i]) > 0
            /\ \A i, j \in 1..n :
                  i < j => KeyIndex(selectedPose, r.missingKeypoints[i])
                              < KeyIndex(selectedPose, r.missingKeypoints[j])
            /\ Len(estimate) > 0 =>
                  \A i \in 1..n :
                      ~Detected(DetectedKeypoints, r.missingKeypoints[i])

\* a pose was scored with some parts matched and several missing
Wit_C1 ==
    /\ Scored /\ Len(estimate) > 0
    /\ poseScore.matchedKeypoints > 0
    /\ Len(poseScore.missingKeypoints) > 1

\* C2: the score returned by scorePose is a number from 0 to 100, for every
\* template, pose and frame width and height.
Cex_C2 ==
    (Scored /\ Len(estimate) > 0) =>
        /\ IsFin(poseScore.score)
        /\ poseScore.score.v >= 0 /\ poseScore.score.v <= 100

\* C3: scoring a pose with no usable keypoint returns score 0, matched 0,
\* total = number of template parts, missing = all part names in order.
Thm_C3 ==
    (/\ Scored /\ Len(estimate) > 0
     /\ \A k \in 1..Len(DetectedKeypoints) :
           DetectedKeypoints[k].name = "" \/ DetectedKeypoints[k].score <= 30)
    => poseScore = [score |-> Fin(0),
                    matchedKeypoints |-> 0,
                    totalKeypoints |-> Len(selectedPose.keypoints),
                    missingKeypoints |-> ObjectKeys(selectedPose)]

\* a pose without keypoints was scored against a template that has parts
Wit_C3 ==
    /\ Scored /\ Len(estimate) > 0
    /\ DetectedKeypoints = << >>
    /\ Len(selectedPose.keypoints) > 0

\* every part of the template is detected, with confidence above 0.3, and
\* every detection of it lies exactly on the scaled template position
ExactlyOnTemplate ==
    \A i \in 1..Len(selectedPose.keypoints) :
        LET part == selectedPose.keypoints[i]
        IN  /\ \E k \in 1..Len(DetectedKeypoints) :
                  DetectedKeypoints[k].name = part.name
            /\ \A k \in 1..Len(DetectedKeypoints) :
                  DetectedKeypoints[k].name = part.name =>
                      /\ DetectedKeypoints[k].score > 30
                      /\ 100 * DetectedKeypoints[k].x = part.x * videoWidth
                      /\ 100 * DetectedKeypoints[k].y = part.y * videoHeight

\* C4: for a catalog template and a positive frame size, a pose lying exactly
\* on the template scores 100 with every part matched and none missing.
Thm_C4 ==
    (/\ Scored /\ Len(estimate) > 0
     /\ selectedPose \in CatalogTemplates
     /\ videoWidth > 0 /\ videoHeight > 0
     /\ ExactlyOnTemplate)
    => /\ poseScore.score = Fin(100)
       /\ poseScore.matchedKeypoints = poseScore.totalKeypoints
       /\ poseScore.missingKeypoints = << >>

\* the exact pose of a catalog template was scored in a positive frame
Wit_C4 ==
    /\ Scored /\ Len(estimate) > 0
    /\ selectedPose \in CatalogTemplates
    /\ videoWidth > 0 /\ videoHeight > 0
    /\ ExactlyOnTemplate
    /\ Len(DetectedKeypoints) = 10

\* the template part of that name
PartNamed(template, name) == template.keypoints[KeyIndex(template, name)]

\* the frame has a positive size and keypoint kp lies a whole number of
\* pixels from the target of the part, so its normalised offset is exact
ExactOffset(part, kp) ==
    /\ videoWidth > 0 /\ videoHeight > 0
    /\ (part.x * videoWidth - 100 * kp.x) % 100 = 0
    /\ (part.y * videoHeight - 100 * kp.y) % 100 = 0

\* (normalised distance of kp from the part's target)^2, times
\* (videoWidth * videoHeight)^2
DistSq(part, kp) ==
    LET dx == (part.x * videoWidth - 100 * kp.x) \div 100
        dy == (part.y * videoHeight - 100 * kp.y) \div 100
    IN  dx * dx * videoHeight * videoHeight + dy * dy * videoWidth * videoWidth

\* positions, as pixel displacements from the target, a part is moved to
AltOffsets == Offsets \cup { <<0, 0>>, <<1, 0>>, <<0, -3>> }

\* the pose with keypoint k at displacement off from its part's target
MovedTo(pose, k, part, off) ==
    [pose EXCEPT
        !.keypoints[k].x = TemplatePixel(part.x, videoWidth) + off[1],
        !.keypoints[k].y = TemplatePixel(part.y, videoHeight) + off[2]]

\* kp is a detected part of the template that lies off its target, a whole
\* number of pixels away
OffTarget(kp) ==
    /\ KeyIndex(selectedPose, kp.name) > 0 /\ kp.score > 30
    /\ ExactOffset(PartNamed(selectedPose, kp.name), kp)
    /\ DistSq(PartNamed(selectedPose, kp.name), kp) > 0

\* C5: of two poses that differ only in the position of one detected part,
\* the one in which that part lies farther (normalised distance) from its
\* template target never gets the higher score.  The scored pose, with a
\* part off its target, is compared with every pose that has that keypoint
\* at another place, on the target included.
Thm_C5 ==
    (Scored /\ Len(estimate) > 0 /\ videoWidth > 0 /\ videoHeight > 0) =>
        \A k \in 1..Len(DetectedKeypoints) :
            LET kp == DetectedKeypoints[k]
            IN  OffTarget(kp) =>
                \A off \in AltOffsets :
                    LET part == PartNamed(selectedPose, kp.name)
                        other == MovedTo(estimate[1], k, part, off)
                        otherScore == scorePose(other, selectedPose,
                                                videoWidth, videoHeight).score
                    IN  /\ DistSq(part, other.keypoints[k]) >= DistSq(part, kp)
                              => ~NumGT(otherScore, poseScore.score)
                        /\ DistSq(part, other.keypoints[k]) <= DistSq(part, kp)
                              => ~NumGT(poseScore.score, otherScore)

\* a pose was scored in which a detected part lies off its target, nearer
\* than 0.2, so that moving it nearer and farther both change the score
Wit_C5 ==
    /\ Scored /\ Len(estimate) > 0 /\ videoWidth > 0 /\ videoHeight > 0
    /\ \E k \in 1..Len(DetectedKeypoints) :
          LET kp == DetectedKeypoints[k]
          IN  /\ OffTarget(kp)
              /\ 25 * DistSq(PartNamed(selectedPose, kp.name), kp)
                    < videoWidth * videoWidth * videoHeight * videoHeight
    /\ poseScore.score.v < 100

\* the static weights as the specification lists them, in tenths
ClaimWeight(name) ==
    IF name \in {"left_shoulder", "right_shoulder", "left_elbow",
                 "right_elbow", "left_wrist", "right_wrist"} THEN 15
    ELSE IF name = "nose" THEN 10
    ELSE IF name \in {"left_eye", "right_eye"} THEN 8
    ELSE IF name \in {"left_ear", "right_ear"} THEN 7
    ELSE IF name \in {"left_hip", "right_hip"} THEN 8
    ELSE IF name \in {"left_knee", "right_knee"} THEN 6
    ELSE IF name \in {"left_ankle", "right_ankle"} THEN 4
    ELSE 10

\* W: the weights of the first n template parts, matched or missing
RECURSIVE ClaimW(_)
ClaimW(n) ==
    IF n = 0 THEN 0
    ELSE ClaimW(n - 1) + ClaimWeight(selectedPose.keypoints[n].name)

\* the similarity of a detected part, as a finite number or NaN
ClaimSimilarity(part) ==
    PartSimilarity(part, MapGet(DetectedKeypoints, part.name),
                   videoWidth, videoHeight)

\* some detected part has no similarity (NaN)
ClaimUndefined ==
    \E i \in 1..Len(selectedPose.keypoints) :
        /\ Detected(DetectedKeypoints, selectedPose.keypoints[i].name)
        /\ ~IsFin(ClaimSimilarity(selectedPose.keypoints[i]))

\* S: weight * similarity over the detected ones of the first n parts
RECURSIVE ClaimS(_)
ClaimS(n) ==
    IF n = 0 THEN 0
    ELSE LET part == selectedPose.keypoints[n]
         IN  ClaimS(n - 1)
               + (IF Detected(DetectedKeypoints, part.name)
                  THEN ClaimWeight(part.name) * ClaimSimilarity(part).v
                  ELSE 0)

\* C6: the final score is round(100 * S / W), W the weights of all template
\* parts and S the sum of weight * similarity over the matched parts; it is
\* 0 when the template has no parts.
Thm_C6 ==
    (Scored /\ Len(estimate) > 0) =>
        LET n == Len(selectedPose.keypoints)
            W == ClaimW(n)
        IN  IF W = 0 THEN poseScore.score = Fin(0)
            ELSE IF ClaimUndefined THEN poseScore.score = NaN
            ELSE /\ IsFin(poseScore.score)
                 /\ (2 * poseScore.score.v - 1) * W * SimOne <= 200 * ClaimS(n)
                 /\ 200 * ClaimS(n) < (2 * poseScore.score.v + 1) * W * SimOne

\* a pose with matched and missing parts got a score strictly between 0 and 100
Wit_C6 ==
    /\ Scored /\ Len(estimate) > 0
    /\ poseScore.matchedKeypoints > 0
    /\ Len(poseScore.missingKeypoints) > 0
    /\ IsFin(poseScore.score)
    /\ poseScore.score.v > 0 /\ poseScore.score.v < 100

\* the pose without any keypoint of that name
Without(pose, name) ==
    [keypoints |-> SelectSeq(pose.keypoints, LAMBDA kp : kp.name # name)]

\* the components of the normalised offset of kp from the part's target, in
\* units of 1/SimOne (exact under ExactOffset for the frame sizes used)
OffsetX(part, kp) ==
    (Abs(part.x * videoWidth - 100 * kp.x) * SimOne) \div (100 * videoWidth)

OffsetY(part, kp) ==
    (Abs(part.y * videoHeight - 100 * kp.y) * SimOne) \div (100 * videoHeight)

\* the normalised distance of kp from the part's target is 0.2 or more
Far(part, kp) ==
    OffsetX(part, kp) * OffsetX(part, kp) + OffsetY(part, kp) * OffsetY(part, kp)
        >= (SimOne \div 5) * (SimOne \div 5)

\* C7: a detected part at normalised distance 0.2 or more has similarity 0,
\* is counted as matched, and leaves the score what it would be without that
\* part; a part nearer than 0.2 has similarity 1 - 5 * distance > 0.
Thm_C7 ==
    (Scored /\ Len(estimate) > 0) =>
        \A i \in 1..Len(selectedPose.keypoints) :
            LET part == selectedPose.keypoints[i]
                kp == MapGet(DetectedKeypoints, part.name)
                sim == ClaimSimilarity(part)
                d == (SimOne - sim.v) \div 5
                sq == OffsetX(part, kp) * OffsetX(part, kp)
                        + OffsetY(part, kp) * OffsetY(part, kp)
            IN  (Detected(DetectedKeypoints, part.name) /\ ExactOffset(part, kp)) =>
                IF Far(part, kp)
                THEN /\ sim = Fin(0)
                     /\ \A j \in 1..Len(poseScore.missingKeypoints) :
                           poseScore.missingKeypoints[j] # part.name
                     /\ poseScore.score =
                          scorePose(Without(estimate[1], part.name), selectedPose,
                                    videoWidth, videoHeight).score
                ELSE /\ IsFin(sim) /\ sim.v > 0
                     /\ 5 * d = SimOne - sim.v
                     /\ d * d <= sq /\ sq < (d + 1) * (d + 1)

\* a pose was scored in which one detected part lies exactly 0.2 from its
\* target and another one nearer than that
Wit_C7 ==
    /\ Scored /\ Len(estimate) > 0
    /\ \E i, j \in 1..Len(selectedPose.keypoints) :
          LET pi == selectedPose.keypoints[i]
              pj == selectedPose.keypoints[j]
              ki == MapGet(DetectedKeypoints, pi.name)
              kj == MapGet(DetectedKeypoints, pj.name)
          IN  /\ Detected(DetectedKeypoints, pi.name)
              /\ Detected(DetectedKeypoints, pj.name)
              /\ ExactOffset(pi, ki) /\ ExactOffset(pj, kj)
              /\ OffsetX(pi, ki) * OffsetX(pi, ki)
                    + OffsetY(pi, ki) * OffsetY(pi, ki)
                    = (SimOne \div 5) * (SimOne \div 5)
              /\ ~Far(pj, kj)
    /\ poseScore.matchedKeypoints = poseScore.totalKeypoints

\* C8: a template part is matched only through a keypoint that has a name
\* and a confidence strictly above 0.3; a part detected only at or below 0.3,
\* or only without a name, is listed as missing and not counted as matched,
\* whatever its position.
Thm_C8 ==
    (Scored /\ Len(estimate) > 0) =>
        /\ \A i \in 1..Len(selectedPose.keypoints) :
              LET name == selectedPose.keypoints[i].name
              IN  (\E j \in 1..Len(poseScore.missingKeypoints) :
                      poseScore.missingKeypoints[j] = name)
                  <=> ~Detected(DetectedKeypoints, name)
        /\ poseScore.matchedKeypoints =
              Cardinality({ i \in 1..Len(selectedPose.keypoints) :
                  Detected(DetectedKeypoints, selectedPose.keypoints[i].name) })

\* a part was detected on the pose with confidence exactly 0.3, and is
\* listed as missing while the other parts are matched
Wit_C8 ==
    /\ Scored /\ Len(estimate) > 0
    /\ \E k \in 1..Len(DetectedKeypoints) :
          /\ DetectedKeypoints[k].score = 30
          /\ \E j \in 1..Len(poseScore.missingKeypoints) :
                poseScore.missingKeypoints[j] = DetectedKeypoints[k].name
    /\ poseScore.matchedKeypoints = poseScore.totalKeypoints - 1

(***************************************************************************)
(* Properties of getPoseFeedback (under SpecFeedback)                      *)
(***************************************************************************)
FeedbackGiven == pc = "feedback"

BandMessages ==
    { MsgMastered, MsgVeryClose, MsgGoodEffort, MsgRightTrack, MsgKeepPracticing }

\* the overall-score message the specification gives a score
ClaimBand(s) ==
    IF s >= 95 THEN MsgMastered
    ELSE IF s \in 80..94 THEN MsgVeryClose
    ELSE IF s \in 60..79 THEN MsgGoodEffort
    ELSE IF s \in 40..59 THEN MsgRightTrack
    ELSE MsgKeepPracticing

\* C9: for every score in 0..100 the feedback starts with the overall-score
\* message of the score's band (mastered >= 95, very close 80..94, good
\* effort 60..79, on the right track 40..59, keep practicing < 40) and holds
\* no other band message.
Thm_C9 ==
    (FeedbackGiven /\ poseScore.score.v \in 0..100) =>
        /\ Len(scoreFeedback) >= 1
        /\ scoreFeedback[1] = ClaimBand(poseScore.score.v)
        /\ \A i \in 2..Len(scoreFeedback) : scoreFeedback[i] \notin BandMessages

\* feedback was produced for a score on a band edge together with other
\* messages
Wit_C9 ==
    /\ FeedbackGiven
    /\ poseScore.score.v = 60
    /\ scoreFeedback[1] = MsgGoodEffort
    /\ Len(scoreFeedback) > 2

\* the six upper-body parts, as the specification lists them
ClaimUpperBody ==
    {"left_shoulder", "right_shoulder", "left_elbow", "right_elbow",
     "left_wrist", "right_wrist"}

\* the missing upper-body parts, in missingKeypoints order
ClaimMissingUpper ==
    SelectSeq(poseScore.missingKeypoints, LAMBDA n : n \in ClaimUpperBody)

\* a name with every underscore replaced by a space
RECURSIVE ClaimReadable(_)
ClaimReadable(tokens) ==
    IF tokens = << >> THEN << >>
    ELSE <<IF Head(tokens) = "_" THEN " " ELSE Head(tokens)>>
            \o ClaimReadable(Tail(tokens))

\* the readable names of the parts, separated by ", "
RECURSIVE ClaimList(_)
ClaimList(names) ==
    IF names = << >> THEN << >>
    ELSE ClaimReadable(NameTokens(Head(names)))
            \o (IF Len(names) > 1 THEN <<", ">> ELSE << >>)
            \o ClaimList(Tail(names))

\* m is a missing-upper-body message, naming parts or generic
IsUpperBodyMessage(m) ==
    m = MsgSeveralUpper \/ (Len(m) > 0 /\ m[1] = "Make sure your ")

\* C10: a missing-upper-body message is emitted iff at least one of the six
\* upper-body parts is missing; for 1 to 3 of them it names exactly those
\* parts, underscores replaced by spaces, in missingKeypoints order; for 4
\* or more it is the generic message; missing lower-body parts alone never
\* produce it.
Thm_C10 ==
    FeedbackGiven =>
        LET upper == ClaimMissingUpper
            given == { i \in 1..Len(scoreFeedback) :
                         IsUpperBodyMessage(scoreFeedback[i]) }
        IN  /\ (given # {}) <=> (Len(upper) >= 1)
            /\ Cardinality(given) <= 1
            /\ Len(upper) \in 1..3 =>
                  \A i \in given :
                      scoreFeedback[i] =
                          <<"Make sure your ">> \o ClaimList(upper)
                              \o <<" are visible to the camera.">>
            /\ Len(upper) >= 4 =>
                  \A i \in given : scoreFeedback[i] = MsgSeveralUpper

\* feedback was produced for a result with exactly three upper-body parts
\* and a lower-body part missing
Wit_C10 ==
    /\ FeedbackGiven
    /\ Len(ClaimMissingUpper) = 3
    /\ Len(poseScore.missingKeypoints) = 4
    /\ \E i \in 1..Len(scoreFeedback) :
          /\ IsUpperBodyMessage(scoreFeedback[i])
          /\ scoreFeedback[i] # MsgSeveralUpper

\* feedback was produced for a result with four upper-body parts missing
Wit_C10_Several ==
    /\ FeedbackGiven
    /\ Len(ClaimMissingUpper) = 4
    /\ \E i \in 1..Len(scoreFeedback) : scoreFeedback[i] = MsgSeveralUpper

\* the two full-body templates and the lower-body parts, as the
\* specification lists them
ClaimFullBodyIds == {"front-double-biceps", "front-lat-spread"}

ClaimLowerBody == {"left_hip", "right_hip", "left_knee", "right_knee"}

\* a hip or a knee is among the missing keypoints of the result
ClaimLowerMissing ==
    \E j \in 1..Len(poseScore.missingKeypoints) :
        poseScore.missingKeypoints[j] \in ClaimLowerBody

HintGiven == \E i \in 1..Len(scoreFeedback) : scoreFeedback[i] = MsgLowerBody

\* C11: the lower-body hint is emitted iff the template id is
\* front-double-biceps or front-lat-spread, a hip or knee is among the
\* missing keypoints and score < 70; never for side-chest, rear-lat-spread
\* and most-muscular, and never at score >= 70.
Thm_C11 ==
    FeedbackGiven =>
        /\ HintGiven <=>
              /\ selectedPose.id \in ClaimFullBodyIds
              /\ ClaimLowerMissing
              /\ poseScore.score.v < 70
        /\ selectedPose.id \in {"side-chest", "rear-lat-spread", "most-muscular"}
              => ~HintGiven
        /\ poseScore.score.v >= 70 => ~HintGiven

\* the hint was given for front-lat-spread at score 69 with only a knee
\* missing
Wit_C11 ==
    /\ FeedbackGiven
    /\ selectedPose.id = "front-lat-spread"
    /\ poseScore.score.v = 69
    /\ poseScore.missingKeypoints = <<"right_knee">>
    /\ HintGiven

\* the ids of the five catalog templates
ClaimCatalogIds ==
    {"front-double-biceps", "side-chest", "rear-lat-spread",
     "front-lat-spread", "most-muscular"}

\* the pose-specific tips of the catalog
ClaimTips == { PoseTip(id) : id \in ClaimCatalogIds }

\* the positions of the feedback that hold a pose-specific tip
TipsGiven == { i \in 1..Len(scoreFeedback) : scoreFeedback[i] \in ClaimTips }

\* C12: for each of the five catalog templates exactly one pose-specific tip
\* is appended when score < 70, the one keyed by the template's id and
\* different from the other four, and none when score >= 70; for side-chest
\* with both knees missing and score < 70 the side-chest tip is present and
\* the lower-body hint is absent.
Thm_C12 ==
    /\ \A a, b \in ClaimCatalogIds :
          /\ PoseTip(a) # << >>
          /\ a # b => PoseTip(a) # PoseTip(b)
    /\ FeedbackGiven =>
          /\ selectedPose.id \in ClaimCatalogIds
          /\ poseScore.score.v < 70 =>
                /\ Cardinality(TipsGiven) = 1
                /\ scoreFeedback[Len(scoreFeedback)] = PoseTip(selectedPose.id)
          /\ poseScore.score.v >= 70 => TipsGiven = {}
          /\ ( /\ selectedPose.id = "side-chest"
               /\ poseScore.missingKeypoints = <<"left_knee", "right_knee">>
               /\ poseScore.score.v < 70 )
                => /\ \E i \in TipsGiven :
                         scoreFeedback[i] = PoseTip("side-chest")
                   /\ ~HintGiven

\* feedback was produced for side-chest at score 69 with both knees missing
Wit_C12 ==
    /\ FeedbackGiven
    /\ selectedPose.id = "side-chest"
    /\ poseScore.missingKeypoints = <<"left_knee", "right_knee">>
    /\ poseScore.score.v = 69
    /\ TipsGiven # {}

\* feedback without a tip was produced at score 70
Wit_C12_NoTip ==
    /\ FeedbackGiven
    /\ poseScore.score.v = 70
    /\ TipsGiven = {}

\* the kind of a message: 1 overall score, 2 missing upper body, 3 lower-body
\* hint, 4 pose-specific tip, 0 anything else
MessageKind(m) ==
    IF m \in BandMessages THEN 1
    ELSE IF IsUpperBodyMessage(m) THEN 2
    ELSE IF m = MsgLowerBody THEN 3
    ELSE IF m \in ClaimTips THEN 4
    ELSE 0

\* C13: the feedback lists its messages in the order overall score, missing
\* upper body, lower-body hint, pose-specific tip: between 1 and 4 messages,
\* the overall-score message first, every kind at most once and the kinds
\* present in that relative order.
Thm_C13 ==
    FeedbackGiven =>
        /\ Len(scoreFeedback) \in 1..4
        /\ MessageKind(scoreFeedback[1]) = 1
        /\ \A i \in 1..Len(scoreFeedback) :
              MessageKind(scoreFeedback[i]) \in 1..4
        /\ \A i, j \in 1..Len(scoreFeedback) :
              i < j => MessageKind(scoreFeedback[i]) < MessageKind(scoreFeedback[j])

\* feedback with all four kinds of message was produced
Wit_C13 ==
    /\ FeedbackGiven
    /\ Len(scoreFeedback) = 4
    /\ MessageKind(scoreFeedback[2]) = 2
    /\ MessageKind(scoreFeedback[3]) = 3
    /\ MessageKind(scoreFeedback[4]) = 4

\* feedback with the overall-score message alone was produced
Wit_C13_One ==
    /\ FeedbackGiven
    /\ Len(scoreFeedback) = 1

(***************************************************************************)
(* Properties of analyzePose (under SpecAnalyze)                           *)
(***************************************************************************)
Analyzed == pc = "analyzed" /\ Len(estimate) > 0

\* the keypoints of the analysed pose
AnalyzedKeypoints == estimate[1].keypoints

\* the keypoints of the analysed pose with confidence above 0.2
ClaimVisible ==
    { i \in 1..Len(AnalyzedKeypoints) : AnalyzedKeypoints[i].score > 20 }

\* a keypoint of that name is visible to the checks
Visible(name) == \E i \in ClaimVisible : AnalyzedKeypoints[i].name = name

\* the items of the geometric checks and the positive items
CheckItems ==
    { ItemShoulders, ItemHips, ItemKnees, ItemBack, ItemHead, ItemPosition,
      ItemPhotoShoulders }

IsPositive(item) == item.severity = "success"

\* the item is in the feedback
Given(item) == \E i \in 1..Len(feedback) : feedback[i] = item

\* C14: in both modes, with fewer than 3 keypoints of confidence above 0.2
\* (zero included) the feedback is exactly one info-severity low-confidence
\* message: no levelness, alignment or face-centering item, no PERFECT item.
Thm_C14 ==
    (Analyzed /\ Cardinality(ClaimVisible) < 3) =>
        /\ Len(feedback) = 1
        /\ feedback[1].severity = "info"
        /\ feedback[1].message = <<"Move closer to the camera or adjust lighting">>
        /\ \A i \in 1..Len(feedback) :
              feedback[i] \notin CheckItems /\ ~IsPositive(feedback[i])

\* a photography-mode pose without any keypoint was analysed
Wit_C14 ==
    /\ Analyzed
    /\ mode = "photography"
    /\ Len(AnalyzedKeypoints) = 0
    /\ feedback = <<ItemLowConfidence>>

\* a fitness-mode pose was analysed whose third keypoint has confidence 0.2
Wit_C14_Dim ==
    /\ Analyzed
    /\ mode = "fitness"
    /\ Len(AnalyzedKeypoints) = 3
    /\ Cardinality(ClaimVisible) = 2
    /\ feedback = <<ItemLowConfidence>>

\* the visible keypoint of that name (the last one, as the checks see it)
VisibleKeypoint(name) ==
    LET I == { i \in ClaimVisible : AnalyzedKeypoints[i].name = name }
    IN  AnalyzedKeypoints[CHOOSE i \in I : \A j \in I : j <= i]

\* the checks of analyzePose ran
ChecksRan == Analyzed /\ Cardinality(ClaimVisible) >= 3

\* the slope of the line through two keypoints, |y difference| over
\* |x difference|, exceeds 0.1
ClaimSlopeExceeds(a, b) == 10 * Abs(b.y - a.y) > Abs(b.x - a.x)

\* C15: in fitness mode with both shoulders visible, 'Try to level your
\* shoulders' is given exactly when |y difference| / |x difference| of the
\* two shoulders exceeds 0.1, whichever shoulder is further left; shoulders
\* both at y = 100 give no warning, shoulders at y = 100 and y = 140 that
\* are 100 apart in x give it.
Cex_C15 ==
    ( /\ ChecksRan /\ mode = "fitness"
      /\ Visible("left_shoulder") /\ Visible("right_shoulder") )
    => ( Given(ItemShoulders) <=>
            ClaimSlopeExceeds(VisibleKeypoint("left_shoulder"),
                              VisibleKeypoint("right_shoulder")) )

\* C16: in fitness mode every check that applies fires, independently of
\* the others: shoulder levelness when both shoulders are visible, hip
\* levelness when both hips are visible, knee levelness when both knees
\* are visible (whether or not the hips are), alignment when both shoulders
\* and both hips are visible.
Cex_C16 ==
    (ChecksRan /\ mode = "fitness") =>
        /\ Given(ItemShoulders) <=>
              /\ Visible("left_shoulder") /\ Visible("right_shoulder")
              /\ SlopeExceeds(VisibleKeypoint("left_shoulder"),
                              VisibleKeypoint("right_shoulder"))
        /\ Given(ItemHips) <=>
              /\ Visible("left_hip") /\ Visible("right_hip")
              /\ SlopeExceeds(VisibleKeypoint("left_hip"),
                              VisibleKeypoint("right_hip"))
        /\ Given(ItemKnees) <=>
              /\ Visible("left_knee") /\ Visible("right_knee")
              /\ SlopeExceeds(VisibleKeypoint("left_knee"),
                              VisibleKeypoint("right_knee"))
        /\ Given(ItemBack) <=>
              /\ Visible("left_shoulder") /\ Visible("right_shoulder")
              /\ Visible("left_hip") /\ Visible("right_hip")
              /\ 5 * Abs(VisibleKeypoint("left_shoulder").x
                          + VisibleKeypoint("right_shoulder").x
                          - VisibleKeypoint("left_hip").x
                          - VisibleKeypoint("right_hip").x) > 1

\* the nose is more than 0.2 of the frame width from the frame's centre
ClaimOffCentre(nose) == Abs(10 * nose.x - 5 * videoWidth) > 2 * videoWidth

\* the shoulder midpoint and the hip midpoint differ horizontally by more
\* than 0.1 of the frame width
ClaimMisaligned ==
    5 * Abs(VisibleKeypoint("left_shoulder").x
             + VisibleKeypoint("right_shoulder").x
             - VisibleKeypoint("left_hip").x
             - VisibleKeypoint("right_hip").x) > videoWidth

\* C17: the horizontal-offset checks are in normalized frame units for
\* every frame width: in photography mode the face-centering item is given
\* exactly when the nose is more than 0.2 of the frame width from the
\* centre, in fitness mode the alignment item exactly when the shoulder and
\* hip midpoints differ by more than 0.1 of the frame width.
Cex_C17 ==
    /\ ( ChecksRan /\ mode = "photography" /\ Visible("nose") )
          => ( Given(ItemPosition) <=> ClaimOffCentre(VisibleKeypoint("nose")) )
    /\ ( /\ ChecksRan /\ mode = "fitness"
         /\ Visible("left_shoulder") /\ Visible("right_shoulder")
         /\ Visible("left_hip") /\ Visible("right_hip") )
          => ( Given(ItemBack) <=> ClaimMisaligned )

\* some check of analyzePose fired
CheckFired == \E i \in 1..Len(feedback) : feedback[i] \in CheckItems

\* the wording of the positive item by visibility priority
ClaimPerfectMessage ==
    IF /\ Visible("left_shoulder") /\ Visible("right_shoulder")
       /\ Visible("left_hip") /\ Visible("right_hip")
    THEN IF mode = "fitness" THEN "PERFECT! Your form is excellent!"
         ELSE "PERFECT! Your pose looks amazing!"
    ELSE IF Visible("left_shoulder") /\ Visible("right_shoulder")
    THEN IF mode = "fitness" THEN "PERFECT! Upper body form is excellent!"
         ELSE "PERFECT! Upper body pose looks amazing!"
    ELSE IF Visible("nose") \/ (Visible("left_eye") /\ Visible("right_eye"))
    THEN "PERFECT! Head position is excellent!"
    ELSE "Some keypoints detected. Try to show more of your body for better feedback."

\* nothing of the body the positive items look at is visible
ClaimNothingKnown ==
    /\ ~(Visible("left_shoulder") /\ Visible("right_shoulder"))
    /\ ~Visible("nose")
    /\ ~(Visible("left_eye") /\ Visible("right_eye"))

\* C18 as stated: when the checks ran and none fired, the feedback is
\* exactly one item of severity success worded by visibility priority
\* (shoulders and hips, else shoulders, else face, else the generic 'show
\* more of your body' message); when a check fired no such item is added;
\* the feedback is never empty.
Cex_C18 ==
    ChecksRan =>
        /\ Len(feedback) >= 1
        /\ ~CheckFired =>
              /\ Len(feedback) = 1
              /\ feedback[1].severity = "success"
              /\ feedback[1].message = <<ClaimPerfectMessage>>
        /\ CheckFired => \A i \in 1..Len(feedback) : feedback[i] \in CheckItems

\* C18, amended: when the checks ran and none fired, the feedback is exactly
\* one item worded by visibility priority; it is a PERFECT item of severity
\* success when both shoulders or the face are visible, and otherwise the
\* generic 'show more of your body' item of severity info; when a check
\* fired no such item is added; the feedback is never empty.
Thm_C18 ==
    ChecksRan =>
        /\ Len(feedback) >= 1
        /\ ~CheckFired =>
              /\ Len(feedback) = 1
              /\ feedback[1].message = <<ClaimPerfectMessage>>
              /\ feedback[1].severity =
                    IF ClaimNothingKnown THEN "info" ELSE "success"
        /\ CheckFired => \A i \in 1..Len(feedback) : feedback[i] \in CheckItems

\* no check fired on a pose with shoulders and face but no hips visible
Wit_C18 ==
    /\ ChecksRan /\ ~CheckFired
    /\ Visible("left_shoulder") /\ Visible("right_shoulder") /\ Visible("nose")
    /\ ~Visible("left_hip")
    /\ feedback[1].severity = "success"

\* no check fired on a pose with neither shoulders nor face visible
Wit_C18_Generic ==
    /\ ChecksRan /\ ~CheckFired
    /\ ClaimNothingKnown
    /\ feedback = <<ItemShowMore>>

\* a check fired
Wit_C18_Fired ==
    /\ ChecksRan /\ CheckFired
    /\ Len(feedback) = 2

(***************************************************************************)
(* Properties of the detection loop (under SpecCamera)                     *)
(***************************************************************************)
\* C19: at most one call of estimatePoses is in flight at any time: a timer
\* tick that finds a detection or scoring call not yet completed issues no
\* second call, for every interleaving of ticks, completions and re-renders.
Cex_C19 == Len(calls) <= 1

\* C20: after the cleanup of a detection effect instance has run (unmount or
\* effect re-run), no timer that instance started issues a detection or
\* scoring call.
Cex_C20 == \A j \in 1..Len(calls) : ~calls[j].torn

\* C21: every detection call is preceded by a completed warm-up delay that
\* started after the camera most recently became ready and the model finished
\* loading: every call in flight was issued while the camera was ready and the
\* model was not loading.
Cex_C21 ==
    \A j \in 1..Len(calls) : calls[j].ready /\ ~calls[j].loading

\* C22: dispose is called on the detector exactly once at teardown: never
\* while the hook is mounted, once when a hook that created its detector is
\* unmounted, and not at all when no detector was created.
Cex_C22 ==
    /\ mounted => disposed = 0
    /\ ~mounted => disposed = (IF detector THEN 1 ELSE 0)

\* C23: once loading the model has failed, the feedback is exactly the one
\* error item, loading is false and no call of estimatePoses is in flight or
\* has settled.
ClaimLoadFailed == ~loading /\ ~detector

Cex_C23 ==
    ClaimLoadFailed =>
        /\ feedback = <<ItemInitError>>
        /\ calls = << >>
        /\ settled = Null

\* C24: when the detector has returned zero poses, a scoring call has stored
\* the score 0 with no keypoint matched and every template part missing and the
\* single message 'No pose detected...', and a rule-based detection call has
\* stored a single info item 'No pose detected...'.
ClaimNoPose(kind) ==
    settled # Null /\ settled.outcome = "none" /\ settled.kind = kind

ClaimZeroScore ==
    /\ poseScore # Null
    /\ poseScore.score = Fin(0)
    /\ poseScore.matchedKeypoints = 0
    /\ poseScore.totalKeypoints = Len(ObjectKeys(settled.template))
    /\ poseScore.missingKeypoints = ObjectKeys(settled.template)
    /\ Len(scoreFeedback) = 1
    /\ scoreFeedback[1][1] =
          "No pose detected. Please make sure you're visible in the camera frame."

ClaimNoPoseItem ==
    /\ Len(feedback) = 1
    /\ feedback[1].severity = "info"
    /\ feedback[1].message =
          <<"No pose detected. Please stand in front of the camera.">>

Cex_C24 ==
    /\ ClaimNoPose("score") => ClaimZeroScore
    /\ ClaimNoPose("detect") => ClaimNoPoseItem

\* C25: only the first pose of a detector result influences what is stored: a
\* result with additional poses leads to the score, the score feedback and the
\* rule-based feedback that the result holding its first pose alone leads to.
ClaimMorePoses(kind) ==
    /\ settled # Null /\ settled.outcome = "morePoses" /\ settled.kind = kind
    /\ Len(estimate) > 1
    /\ Head(estimate) = Head(Returned("poses"))
    /\ Len(Returned("poses")) = 1

Thm_C25 ==
    /\ ClaimMorePoses("score") =>
          /\ poseScore = ScoreStored["poses", settled.template.id].poseScore
          /\ scoreFeedback = ScoreStored["poses", settled.template.id].scoreFeedback
    /\ ClaimMorePoses("detect") /\ variant = "rules" =>
          feedback = FeedbackStored["poses", mode].rules
    /\ ClaimMorePoses("detect") /\ variant = "template" /\ mode = "photography" =>
          feedback = FeedbackStored["poses", mode].template

\* a scoring call settled on a result with a second, different pose
Wit_C25 ==
    /\ ClaimMorePoses("score")
    /\ estimate[2] # estimate[1]
    /\ poseScore # Null /\ poseScore.matchedKeypoints > 0

\* a rule-based detection call settled on such a result
Wit_C25_Rules ==
    /\ ClaimMorePoses("detect") /\ variant = "rules"
    /\ estimate[2] # estimate[1]
    /\ Len(feedback) > 0

\* C29: isDetecting tracks the call in flight: it is true in every state of
\* the mounted hook in which a call of estimatePoses is in flight.
Cex_C29 == (mounted /\ Len(calls) > 0) => isDetecting

\* C30: scoring uses the currently selected template: every scoring call in
\* flight was issued while a pose was selected and is made against the pose
\* that was selected when it was issued.
Cex_C30 ==
    \A j \in 1..Len(calls) :
        calls[j].kind = "score" =>
            /\ calls[j].selected # Null
            /\ calls[j].template = calls[j].selected

(***************************************************************************)
(* Properties of the score panel (under Spec)                              *)
(***************************************************************************)
\* C27: whenever a pose was detected and scored with matchedKeypoints > 0, the
\* panel shows the regular score view with the matched count and the feedback
\* produced by getPoseFeedback, not the zero-score 'No pose detected' view.
Cex_C27 ==
    (Scored /\ Len(estimate) > 0 /\ poseScore.matchedKeypoints > 0) =>
        /\ FeedbackPanel.view = "score"
        /\ FeedbackPanel.matched = Fin(poseScore.matchedKeypoints)
        /\ FeedbackPanel.messages = getPoseFeedback(poseScore, selectedPose)

\* C28: for every catalog template scorePose returns 95 or more only when no
\* shoulder, elbow or wrist is missing, and 100 only when nothing is missing;
\* so the feedback on its result never holds the 'mastered' message together
\* with a missing-upper-body message.
ClaimUpperParts ==
    {"left_shoulder", "right_shoulder", "left_elbow", "right_elbow",
     "left_wrist", "right_wrist"}

ClaimUpperMissing ==
    \E j \in 1..Len(poseScore.missingKeypoints) :
        poseScore.missingKeypoints[j] \in ClaimUpperParts

ClaimMastered == poseScore.score.kind = "fin" /\ poseScore.score.v >= 95

Thm_C28 ==
    (Scored /\ selectedPose.id \in ClaimCatalogIds) =>
        /\ ClaimMastered => ~ClaimUpperMissing
        /\ poseScore.score = Fin(100) => poseScore.missingKeypoints = << >>
        /\ \A i, k \in 1..Len(scoreFeedback) :
              ~(/\ scoreFeedback[i] = <<"Perfect! You've mastered this pose.">>
                /\ IsUpperBodyMessage(scoreFeedback[k]))

\* the mastered band reached with a part missing (a knee)
Wit_C28 ==
    /\ Scored /\ selectedPose.id \in ClaimCatalogIds
    /\ ClaimMastered
    /\ Len(poseScore.missingKeypoints) > 0
    /\ scoreFeedback[1] = <<"Perfect! You've mastered this pose.">>

\* an upper-body part missing
Wit_C28_Upper ==
    /\ Scored /\ selectedPose.id \in ClaimCatalogIds
    /\ Len(estimate) > 0 /\ poseScore.matchedKeypoints > 0
    /\ ClaimUpperMissing
    /\ \E i \in 1..Len(scoreFeedback) : IsUpperBodyMessage(scoreFeedback[i])

====
